---- MODULE Spec2Model ----
(***************************************************************************)
(* Model of the go-diameter server layer (package diam): the accept loop   *)
(* Server.Serve, the per-connection serving loop conn.serve, the command   *)
(* multiplexer ServeMux (Handle, ServeDIAM, serve) and its one-slot error  *)
(* mailbox (Error, ErrorReports).                                          *)
(***************************************************************************)
EXTENDS Integers, Sequences, FiniteSets, TLC

(***************************************************************************)
(* Bounds of the model.                                                    *)
(***************************************************************************)
\* Connections the listener hands out before Accept only fails or blocks.
NConn == 2
\* Messages readMessage returns on one connection before it only fails.
MaxMsgs == 2
\* Bytes a peer sends on one connection before it only waits or disconnects.
MaxBytes == 3
\* Temporary Accept errors in a row before Accept only succeeds or fails for
\* good: enough for the backoff to reach its ceiling and stay there.
MaxTemp == 10
\* Write calls made on the connection
MaxCalls == 3
\* bytes of a message passed to Write
MaxLen == 3
\* capacity of c.buf.Writer, in bytes
WriterSize == 2

Conns == 1..NConn

\* The connection whose calls of CloseNotify and Write are followed step by
\* step.
TheConn == 1

(***************************************************************************)
(* Program constants.                                                      *)
(***************************************************************************)
\* RequestFlag, the R bit (bit 7) of Header.CommandFlags.
RequestFlag == 128
\* <application id="16777238"> of the dictionary file.
GxApplicationID == 16777238
\* <command code="272" short="CC"> of the dictionary file.
CCCommandCode == 272
\* A command code the dictionary file has no entry for.
CECommandCode == 257
\* cap(mux.e): make(chan ErrorReport, 1).
ErrChanCap == 1
\* Accept backoff: first delay and ceiling, in milliseconds.
FirstDelay == 5
MaxDelay == 1000

\* The absent values of the Go code.
Nil == "nil"
NoEntry == "absent"
\* A nil *Message.
NilMessage == [nil |-> TRUE]
\* No Handle call has ended yet.
NoHandle == [cmd |-> Nil, h |-> Nil, res |-> "none", old |-> NoEntry]

\* A nil *Header, and the result of a ReadHeader that has not run.
NilHeader == [nil |-> TRUE]
NoResult == [hdr |-> NilHeader, err |-> Nil]

\* The <command> elements of the dictionary file: <<application, code, short>>.
DictCommands == { <<GxApplicationID, CCCommandCode, "CC">> }

\* Messages ReadMessage can return: header fields the dispatch depends on.
Msgs ==
    { [app |-> GxApplicationID, code |-> CCCommandCode, flags |-> RequestFlag],
      [app |-> GxApplicationID, code |-> CCCommandCode, flags |-> 0],
      [app |-> 0,               code |-> CCCommandCode, flags |-> RequestFlag],
      [app |-> GxApplicationID, code |-> CECommandCode, flags |-> 0] }

\* Errors readMessage can return on an open socket.
ReadErrs == { "EOF", "ErrUnexpectedEOF", "fault" }

\* Handlers an application registers, and the dispatch keys it registers under.
Handlers == { "h1", "h2" }
Keys == { "CCR", "CCA", "ALL" }
\* A Server.Handler that is not a ServeMux and implements no ErrorReporter.
Custom == "custom"
\* Errors l.Accept() returns: net.Errors that are Temporary(), a net.Error
\* that is not, and an error that is no net.Error.
AcceptErrs == { "EMFILE", "ECONNABORTED", "closed", "failed" }
\* Goroutines that call CloseNotify on a connection: the handler running in
\* the serving loop, and another goroutine the Conn was handed to.
Requesters == { "handler", "other" }
NoBytes == [who |-> Nil, no |-> 0, of |-> 0, at |-> 0]

VARIABLES
    \* Server.Serve
    lpc,         \* position of the accept loop: "accept", "sleep", "returned"
    tempDelay,   \* local tempDelay, in milliseconds
    lclosed,     \* the listener is closed (defer l.Close())
    serveRet,    \* the error Serve returned, Nil before it returns
    aerr,        \* the error e of the last l.Accept(), Nil when it had none
    ktemp,       \* temporary Accept errors in a row since the last socket
    isTLS,       \* the listener is a TLS listener (ListenAndServeTLS)
    Handler,     \* Server.Handler: Nil (DefaultServeMux) or Custom
    \* conn, one per accepted socket
    cpc,         \* position of conn.serve
    nread,       \* messages readMessage has returned
    ncall,       \* calls of serverHandler.ServeDIAM made by the loop
    nret,        \* calls of serverHandler.ServeDIAM that have returned
    cur,         \* local m of the loop body: the message read, nil outside it
    invoked,     \* handler invocations in progress on the connection
    emitted,     \* ErrorReports submitted by the loop since its last read began
    rwcClosed,   \* c.rwc is closed
    tlsState,    \* c.tlsState
    exitPath,    \* how conn.serve left its loop
    \* ServeMux
    muxM,        \* mux.m
    muxE,        \* mux.e, the buffered channel
    muReaders,   \* connections holding mux.mu.RLock
    muWriter,    \* the Handle call blocked in mux.mu.Lock: <<cmd, handler>>, or <<>>
    muLocked,    \* mux.mu is write-locked
    lastHandle,  \* the last Handle call that ended: [cmd, h, res, old]
    \* conn.closeNotify of one connection, and the byte streams behind it
    closeNotifyc, \* c.closeNotifyc: "nil", "open" or "closed"
    clientGone,  \* c.clientGone
    closes,      \* close(c.closeNotifyc) statements executed
    cmu,         \* the goroutine holding c.mu, or Nil
    req,         \* position of each caller of CloseNotify
    srR,         \* c.sr.r: "rwc" or "pr"
    rdR,         \* local r of the liveSwitchReader.Read in flight, or Nil
    deadline,    \* read deadline of c.rwc: "off" (no ReadTimeout), "unset", "set"
    peer,        \* the peer: "connected", or how its stream ended
    sent,        \* bytes the peer has sent: byte i is the i-th sent
    rwcIn,       \* bytes received on c.rwc and not read yet
    pipeW,       \* bytes of the pw.Write in progress on the pipe
    pipeErr,     \* error the pipe was closed with, or Nil
    copyPc,      \* position of the goroutine started by closeNotify
    copyErr,     \* error that ended reading readSource, or Nil
    goneAfter,   \* the peer disconnected after CloseNotify was first called
    seen,        \* bytes liveSwitchReader.Read has returned, in order
    rbuf,        \* bytes c.buf.Reader holds that no returned message has used
    rmore,       \* readMessage found no whole message buffered and reads on
    \* the header codec
    hpc,         \* "none", "input", "stream" (bytes to read), "read"
    hin,         \* the field values the stream's header was made of
    stream,      \* the bytes the io.Reader passed to ReadHeader delivers
    hres,        \* what ReadHeader returned: [hdr, err]
    \* response.Write on one connection
    wmu,         \* the goroutine holding w.mu, or Nil
    wpc,         \* position of each caller of Write, "idle" when in none
    wmsg,        \* argument b of the call in progress: [who, no, of]
    wbuf,        \* bytes held by c.buf.Writer
    berr,        \* sticky error of c.buf.Writer, or Nil
    rwcOut,      \* bytes written to c.rwc, in order
    wres,        \* what each caller's calls returned, in order: [n, err]
    wdeadline    \* write deadline of c.rwc: "off" (no WriteTimeout), "unset", "set"

srvVars == <<lpc, tempDelay, lclosed, serveRet, aerr, ktemp, isTLS, Handler>>
connVars == <<cpc, nread, ncall, nret, cur, invoked, emitted,
              rwcClosed, tlsState, exitPath>>
muxVars == <<muxM, muxE, muReaders, muWriter, muLocked, lastHandle>>
notifyVars == <<closeNotifyc, clientGone, closes, cmu, req, srR, rdR, deadline,
                peer, sent, rwcIn, pipeW, pipeErr, copyPc, copyErr, goneAfter,
                seen, rbuf, rmore>>
hdrVars == <<hpc, hin, stream, hres>>
wrVars == <<wmu, wpc, wmsg, wbuf, berr, rwcOut, wres, wdeadline>>
extVars == <<notifyVars, hdrVars, wrVars>>
vars == <<srvVars, connVars, muxVars, extVars>>

(***************************************************************************)
(* Helpers.                                                                *)
(***************************************************************************)
Min(a, b) == IF a < b THEN a ELSE b

\* The Conn handed to handlers and named in reports: c.writer, one per conn.
Writer(c) == c

\* ErrorReport{Conn, Message, Error}.
ErrorReport(c, m, err) == [Conn |-> c, Message |-> m, Error |-> err]

\* A call h.ServeDIAM(c, m) of the handler found under key cmd of mux.m
\* (cmd is Nil for the handler configured in Server.Handler).
Invocation(h, cmd, c, m) == [h |-> h, cmd |-> cmd, Conn |-> c, Message |-> m]

\* dict.Parser.FindCommand(appid, code): the short name, or Nil for an error.
FindCommand(app, code) ==
    IF \E d \in DictCommands : d[1] = app /\ d[2] = code
    THEN (CHOOSE d \in DictCommands : d[1] = app /\ d[2] = code)[3]
    ELSE Nil

\* A test of the P bit (0x40) in place of the R bit.
IsRequestWrongBit(m) == (m.flags \div 64) % 2 = 1

\* m.Header.CommandFlags&RequestFlag == RequestFlag
IsRequest(m) == (m.flags \div RequestFlag) % 2 = 1

\* A ServeDIAM that drops the error of FindCommand and builds the key from
\* the empty short name of the zero Command.
DispatchKeyIgnoresErr(m) ==
    LET found == FindCommand(m.app, m.code)
        short == IF found = Nil THEN "" ELSE found
    IN  IF IsRequest(m) THEN short \o "R" ELSE short \o "A"

\* The key ServeMux.ServeDIAM passes to mux.serve.
DispatchKey(m) ==
    LET short == FindCommand(m.app, m.code)
    IN  IF short = Nil THEN "ALL"
        ELSE IF IsRequest(m) THEN short \o "R" ELSE short \o "A"

\* entry, ok := mux.m[cmd]
Lookup(table, cmd) == IF cmd \in DOMAIN table THEN table[cmd] ELSE NoEntry

\* A plain send, mux.e <- err, without the default case: it waits for room.
ErrorSelectNoDefault(e) == IF Len(e) < ErrChanCap THEN "send" ELSE "block"

\* The case the select of ServeMux.Error takes on mailbox e: the send when
\* the buffer has room, the default otherwise; "block" would be a caller
\* parked on the channel.
ErrorSelect(e) == IF Len(e) < ErrChanCap THEN "send" ELSE "default"

\* A mailbox that keeps the newest report in place of the oldest.
ErrorSendOverwrite(e, report) == <<report>>

\* ServeMux.Error: select { case mux.e <- err: default: }
ErrorSend(e, report) == IF ErrorSelect(e) = "send" THEN Append(e, report) ELSE e

\* h.(ErrorReporter) for h := c.server.Handler, DefaultServeMux when nil.
IsErrorReporter(h) == h = Nil

\* A loop that reports every read error, the end of the stream included.
ReportsReadErrAlways(err) == TRUE

\* Report errors to the channel, except EOF.
ReportsReadErr(err) == err /= "EOF" /\ err /= "ErrUnexpectedEOF"

\* ne, ok := e.(net.Error); ok && ne.Temporary()
Temporary(e) == e \in { "EMFILE", "ECONNABORTED" }

\* A backoff that doubles without the ceiling.
NextDelayNoCeiling(d) == IF d = 0 THEN FirstDelay ELSE 2 * d

\* tempDelay after one more temporary Accept error.
NextDelay(d) == IF d = 0 THEN FirstDelay ELSE Min(2 * d, MaxDelay)

\* A Handle body without the nil check.
HandleStoreNoCheck(table, cmd, h) == [table EXCEPT ![cmd] = h]

\* A Handle body that keeps the handler a key already has.
HandleStoreKeepFirst(table, cmd, h) ==
    IF h = Nil \/ table[cmd] /= NoEntry THEN table ELSE [table EXCEPT ![cmd] = h]

\* The body of ServeMux.Handle once mux.mu is held.
HandleStore(table, cmd, h) == IF h = Nil THEN table ELSE [table EXCEPT ![cmd] = h]

\* How ServeMux.Handle(cmd, h) ends: panic("DIAM: nil handler") or a return.
\* (old is the entry the call found under cmd).
HandleOutcome(table, cmd, h) ==
    [cmd |-> cmd, h |-> h, res |-> IF h = Nil THEN "panic" ELSE "ok",
     old |-> table[cmd]]

\* An Unlock at the end of the body of Handle: the panic skips it.
HandleUnlockAtEnd(h) == h = Nil

\* defer mux.mu.Unlock(): whether mux.mu is still write-locked once
\* Handle(cmd, h) has returned or panicked.
HandleUnlock(h) == FALSE

(***************************************************************************)
(* Initial state: a constructed Server and NewServeMux(), nothing accepted.*)
(***************************************************************************)
InitServer ==
    /\ lpc = "accept"
    /\ tempDelay = 0
    /\ lclosed = FALSE
    /\ serveRet = Nil
    /\ aerr = Nil
    /\ ktemp = 0
    /\ isTLS \in BOOLEAN
    /\ Handler \in {Nil, Custom}

InitConns ==
    /\ cpc = [c \in Conns |-> "none"]
    /\ nread = [c \in Conns |-> 0]
    /\ ncall = [c \in Conns |-> 0]
    /\ nret = [c \in Conns |-> 0]
    /\ cur = [c \in Conns |-> NilMessage]
    /\ invoked = [c \in Conns |-> <<>>]
    /\ emitted = [c \in Conns |-> <<>>]
    /\ rwcClosed = [c \in Conns |-> FALSE]
    /\ tlsState = [c \in Conns |-> Nil]
    /\ exitPath = [c \in Conns |-> "none"]

\* NewServeMux()
InitMux ==
    /\ muxM = [k \in Keys |-> NoEntry]
    /\ muxE = <<>>
    /\ muReaders = {}
    /\ muWriter = <<>>
    /\ muLocked = FALSE
    /\ lastHandle = NoHandle

\* No CloseNotify call yet: newConn leaves sr.r = rwc and the rest zero.
InitNotifyIdle ==
    /\ closeNotifyc = "nil"
    /\ clientGone = FALSE
    /\ closes = 0
    /\ cmu = Nil
    /\ req = [g \in Requesters |-> "idle"]
    /\ srR = "rwc"
    /\ rdR = Nil
    /\ deadline = "off"
    /\ peer = "connected"
    /\ sent = 0
    /\ rwcIn = <<>>
    /\ pipeW = <<>>
    /\ pipeErr = Nil
    /\ copyPc = "none"
    /\ copyErr = Nil
    /\ goneAfter = FALSE
    /\ seen = <<>>
    /\ rbuf = 0
    /\ rmore = FALSE

\* No header is being read.
InitHeaderIdle ==
    /\ hpc = "none"
    /\ hin = NilHeader
    /\ stream = <<>>
    /\ hres = NoResult

\* No Write call has been made.
InitWriteIdle ==
    /\ wmu = Nil
    /\ wpc = [g \in Requesters |-> "idle"]
    /\ wmsg = [g \in Requesters |-> NoBytes]
    /\ wbuf = <<>>
    /\ berr = Nil
    /\ rwcOut = <<>>
    /\ wres = [g \in Requesters |-> <<>>]
    /\ wdeadline = "off"

InitExt == InitNotifyIdle /\ InitHeaderIdle /\ InitWriteIdle

Init == InitServer /\ InitConns /\ InitMux /\ InitExt

(***************************************************************************)
(* Server.Serve                                                            *)
(***************************************************************************)
\* l.Accept() returns a socket: tempDelay = 0, newConn, go c.serve().
AcceptOK ==
    /\ lpc = "accept"
    /\ \E c \in Conns :
        /\ cpc[c] = "none"
        /\ \A d \in Conns : d < c => cpc[d] /= "none"
        /\ cpc' = [cpc EXCEPT ![c] = "start"]
    /\ tempDelay' = 0
    /\ aerr' = Nil
    /\ ktemp' = 0
    /\ UNCHANGED <<lpc, lclosed, serveRet, isTLS, Handler>>
    /\ UNCHANGED <<nread, ncall, nret, cur, invoked, emitted,
                   rwcClosed, tlsState, exitPath>>
    /\ UNCHANGED muxVars
    /\ UNCHANGED extVars

\* l.Accept() returns a temporary net.Error: back off and sleep.
AcceptTemporary ==
    /\ lpc = "accept"
    /\ ktemp < MaxTemp
    /\ \E e \in AcceptErrs : Temporary(e) /\ aerr' = e
    /\ ktemp' = ktemp + 1
    /\ tempDelay' = NextDelay(tempDelay)
    /\ lpc' = "sleep"
    /\ UNCHANGED <<lclosed, serveRet, isTLS, Handler>>
    /\ UNCHANGED <<connVars, muxVars>>
    /\ UNCHANGED extVars

\* time.Sleep(tempDelay) returns; continue.
SleepDone ==
    /\ lpc = "sleep"
    /\ lpc' = "accept"
    /\ UNCHANGED <<tempDelay, lclosed, serveRet, aerr, ktemp, isTLS, Handler>>
    /\ UNCHANGED <<connVars, muxVars>>
    /\ UNCHANGED extVars

\* A loop that backs off and retries on every Accept error.
AcceptPermanentRetried ==
    /\ lpc = "accept"
    /\ \E e \in AcceptErrs : ~Temporary(e) /\ aerr' = e
    /\ tempDelay' = NextDelay(tempDelay)
    /\ lpc' = "sleep"
    /\ UNCHANGED <<lclosed, serveRet, ktemp, isTLS, Handler>>
    /\ UNCHANGED <<connVars, muxVars>>
    /\ UNCHANGED extVars

\* l.Accept() returns any other error: return e, with the deferred l.Close().
AcceptPermanent ==
    /\ lpc = "accept"
    /\ \E e \in AcceptErrs : ~Temporary(e) /\ aerr' = e /\ serveRet' = e
    /\ lpc' = "returned"
    /\ lclosed' = TRUE
    /\ UNCHANGED <<tempDelay, ktemp, isTLS, Handler>>
    /\ UNCHANGED <<connVars, muxVars>>
    /\ UNCHANGED extVars

(***************************************************************************)
(* conn.serve                                                              *)
(***************************************************************************)
\* A deferred function that forgets the socket.
DeferredCloseMissing(closed, c) == closed

\* c.rwc.Close() in the deferred function of serve.
DeferredClose(closed, c) == [closed EXCEPT ![c] = TRUE]

\* serve returns by the given path, from the socket state `closed`: the
\* deferred function runs (recover(), then c.rwc.Close()).
ServeExit(c, path, closed) ==
    /\ cpc' = [cpc EXCEPT ![c] = "done"]
    /\ rwcClosed' = DeferredClose(closed, c)
    /\ exitPath' = [exitPath EXCEPT ![c] = path]

\* A serve that ignores the error of the handshake and serves the socket.
ServeStartHandshakeUnchecked(c) ==
    /\ cpc[c] = "start"
    /\ cpc' = [cpc EXCEPT ![c] = "read"]
    /\ \/ ~isTLS /\ UNCHANGED tlsState
       \/ isTLS /\ tlsState' = [tlsState EXCEPT ![c] = "captured"]
       \/ isTLS /\ UNCHANGED tlsState
    /\ UNCHANGED <<rwcClosed, exitPath>>
    /\ UNCHANGED <<nread, ncall, nret, cur, invoked, emitted>>
    /\ UNCHANGED <<srvVars, muxVars>>
    /\ UNCHANGED extVars

\* The TLS branch at the top of serve: handshake, then capture the state.
ServeStart(c) ==
    /\ cpc[c] = "start"
    /\ \/ /\ ~isTLS
          /\ cpc' = [cpc EXCEPT ![c] = "read"]
          /\ UNCHANGED <<tlsState, rwcClosed, exitPath>>
       \/ /\ isTLS
          /\ cpc' = [cpc EXCEPT ![c] = "read"]
          /\ tlsState' = [tlsState EXCEPT ![c] = "captured"]
          /\ UNCHANGED <<rwcClosed, exitPath>>
       \/ /\ isTLS
          /\ ServeExit(c, "handshake", rwcClosed)
          /\ UNCHANGED tlsState
    /\ UNCHANGED <<nread, ncall, nret, cur, invoked, emitted>>
    /\ UNCHANGED <<srvVars, muxVars>>
    /\ UNCHANGED extVars

\* A loop that reads ahead while the handler of the last message still runs.
ReadOKPipelined(c) ==
    /\ cpc[c] \in {"read", "handler"}
    /\ nread[c] < MaxMsgs
    /\ \E m \in Msgs : cur' = [cur EXCEPT ![c] = m]
    /\ nread' = [nread EXCEPT ![c] = @ + 1]
    /\ emitted' = [emitted EXCEPT ![c] = <<>>]
    /\ cpc' = [cpc EXCEPT ![c] = "dispatch"]
    /\ UNCHANGED <<ncall, nret, invoked, rwcClosed, tlsState, exitPath>>
    /\ UNCHANGED <<srvVars, muxVars>>
    /\ UNCHANGED extVars

\* c.readMessage() returns a message; on a socket closed by Close it is a
\* message the buffered reader holds already.
ReadOK(c) ==
    /\ cpc[c] = "read"
    /\ nread[c] < MaxMsgs
    /\ \E m \in Msgs : cur' = [cur EXCEPT ![c] = m]
    /\ nread' = [nread EXCEPT ![c] = @ + 1]
    /\ emitted' = [emitted EXCEPT ![c] = <<>>]
    /\ cpc' = [cpc EXCEPT ![c] = "dispatch"]
    /\ UNCHANGED <<ncall, nret, invoked, rwcClosed, tlsState, exitPath>>
    /\ UNCHANGED <<srvVars, muxVars>>
    /\ UNCHANGED extVars

\* c.readMessage() returns (nil, err): close, report unless EOF, break.
ReadFailWith(c, err) ==
    /\ cpc[c] = "read"
    /\ ServeExit(c, err, [rwcClosed EXCEPT ![c] = TRUE])
    /\ IF ReportsReadErr(err) /\ IsErrorReporter(Handler)
       THEN /\ ErrorSelect(muxE) /= "block"
            /\ muxE' = ErrorSend(muxE, ErrorReport(Writer(c), NilMessage, err))
            /\ emitted' = [emitted EXCEPT
                             ![c] = <<ErrorReport(Writer(c), NilMessage, err)>>]
       ELSE /\ emitted' = [emitted EXCEPT ![c] = <<>>]
            /\ UNCHANGED muxE
    /\ UNCHANGED <<nread, ncall, nret, cur, invoked, tlsState>>
    /\ UNCHANGED <<muxM, muReaders, muWriter, muLocked, lastHandle>>
    /\ UNCHANGED srvVars
    /\ UNCHANGED extVars

\* The errors readMessage can end with. A socket closed on this side fails
\* every Read with its own error; what the buffered reader took in before
\* the Close still comes out: a message that fails to decode, or the end of
\* the stream that a Read returned together with its last bytes.
ReadErrsOf(c) == IF rwcClosed[c] THEN ReadErrs \cup { "closed" } ELSE ReadErrs

\* The read of the loop fails with one of the errors a connection produces.
ReadFail(c) == \E err \in ReadErrsOf(c) : ReadFailWith(c, err)

\* A serve that falls back to the "ALL" entry whenever cmd has no entry.
MuxServeFallback(c, cmd, m) ==
    LET k == IF Lookup(muxM, cmd) /= NoEntry THEN cmd ELSE "ALL"
        h == Lookup(muxM, k)
    IN  IF h /= NoEntry
        THEN /\ invoked' = [invoked EXCEPT
                              ![c] = Append(@, Invocation(h, k, Writer(c), m))]
             /\ cpc' = [cpc EXCEPT ![c] = "handler"]
             /\ muReaders' = muReaders \cup {c}
             /\ UNCHANGED <<muxE, emitted, nret, cur>>
        ELSE /\ ErrorSelect(muxE) /= "block"
             /\ muxE' = ErrorSend(muxE,
                            ErrorReport(Writer(c), m, "unhandled message"))
             /\ emitted' = [emitted EXCEPT ![c] = Append(@,
                            ErrorReport(Writer(c), m, "unhandled message"))]
             /\ cpc' = [cpc EXCEPT ![c] = "read"]
             /\ nret' = [nret EXCEPT ![c] = @ + 1]
             /\ cur' = [cur EXCEPT ![c] = NilMessage]
             /\ UNCHANGED <<invoked, muReaders>>

\* mux.serve(cmd, c, m) with mux.mu read-locked: the registered handler
\* starts to run, or the message is reported and ServeDIAM returns.
MuxServe(c, cmd, m) ==
    LET h == Lookup(muxM, cmd)
    IN  IF h /= NoEntry
        THEN /\ invoked' = [invoked EXCEPT
                              ![c] = Append(@, Invocation(h, cmd, Writer(c), m))]
             /\ cpc' = [cpc EXCEPT ![c] = "handler"]
             /\ muReaders' = muReaders \cup {c}
             /\ UNCHANGED <<muxE, emitted, nret, cur>>
        ELSE /\ ErrorSelect(muxE) /= "block"
             /\ muxE' = ErrorSend(muxE,
                            ErrorReport(Writer(c), m, "unhandled message"))
             /\ emitted' = [emitted EXCEPT ![c] = Append(@,
                            ErrorReport(Writer(c), m, "unhandled message"))]
             /\ cpc' = [cpc EXCEPT ![c] = "read"]
             /\ nret' = [nret EXCEPT ![c] = @ + 1]
             /\ cur' = [cur EXCEPT ![c] = NilMessage]
             /\ UNCHANGED <<invoked, muReaders>>

\* serverHandler{c.server}.ServeDIAM(c.writer, m): the configured handler, or
\* ServeMux.ServeDIAM up to the point where the registered handler runs.
Dispatch(c) ==
    /\ cpc[c] = "dispatch"
    /\ IF Handler = Nil
       THEN /\ muWriter = <<>>
            /\ ~muLocked
            /\ MuxServe(c, DispatchKey(cur[c]), cur[c])
       ELSE /\ invoked' = [invoked EXCEPT
                             ![c] = Append(@, Invocation(Handler, Nil, Writer(c), cur[c]))]
            /\ cpc' = [cpc EXCEPT ![c] = "handler"]
            /\ UNCHANGED <<muxE, emitted, muReaders, nret, cur>>
    /\ ncall' = [ncall EXCEPT ![c] = @ + 1]
    /\ UNCHANGED <<nread, rwcClosed, tlsState, exitPath>>
    /\ UNCHANGED <<muxM, muWriter, muLocked, lastHandle>>
    /\ UNCHANGED srvVars
    /\ UNCHANGED extVars

\* The handler's goroutine is inside a call of its Conn that has not
\* returned: closeNotify past c.mu.Lock(), or Write.
InsideConnCall(c) ==
    c = TheConn /\ (req["handler"] = "locked" \/ wpc["handler"] /= "idle")

\* The Conn of connection c has been given out: to a handler with a message,
\* or to the ErrorReporter with the error that ended the loop.
ConnGiven(c) == ncall[c] > 0 \/ emitted[c] /= <<>>

\* response.Close(): a goroutine that was given the Conn closes the socket;
\* the serving loop goes on until its next read of the socket fails.
ResponseClose(c) ==
    /\ ConnGiven(c)
    /\ cpc[c] /= "done"
    /\ ~rwcClosed[c]
    /\ rwcClosed' = [rwcClosed EXCEPT ![c] = TRUE]
    /\ UNCHANGED <<cpc, nread, ncall, nret, cur, invoked, emitted,
                   tlsState, exitPath>>
    /\ UNCHANGED <<srvVars, muxVars>>
    /\ UNCHANGED extVars

\* The handler returns: deferred RUnlock, then the loop reads again.
HandlerReturn(c) ==
    /\ cpc[c] = "handler"
    /\ ~InsideConnCall(c)
    /\ cpc' = [cpc EXCEPT ![c] = "read"]
    /\ nret' = [nret EXCEPT ![c] = @ + 1]
    /\ muReaders' = muReaders \ {c}
    /\ cur' = [cur EXCEPT ![c] = NilMessage]
    /\ invoked' = [invoked EXCEPT ![c] = <<>>]
    /\ UNCHANGED <<nread, ncall, emitted, rwcClosed, tlsState, exitPath>>
    /\ UNCHANGED <<muxM, muxE, muWriter, muLocked, lastHandle>>
    /\ UNCHANGED srvVars
    /\ UNCHANGED extVars

\* The handler panics: the panic unwinds ServeMux.ServeDIAM, where the
\* deferred RUnlock runs, on its way to the deferred function of serve.
HandlerPanic(c) ==
    /\ cpc[c] = "handler"
    /\ ~InsideConnCall(c)
    /\ cpc' = [cpc EXCEPT ![c] = "panic"]
    /\ muReaders' = muReaders \ {c}
    /\ cur' = [cur EXCEPT ![c] = NilMessage]
    /\ invoked' = [invoked EXCEPT ![c] = <<>>]
    /\ UNCHANGED <<nread, ncall, nret, emitted, rwcClosed, tlsState, exitPath>>
    /\ UNCHANGED <<muxM, muxE, muWriter, muLocked, lastHandle>>
    /\ UNCHANGED srvVars
    /\ UNCHANGED extVars

\* A panic nobody recovers: the runtime ends the process, and with it the
\* accept loop and every serving loop.
HandlerPanicEscapes(c) ==
    /\ cpc[c] = "panic"
    /\ cpc' = [d \in Conns |-> IF cpc[d] = "none" THEN "none" ELSE "done"]
    /\ exitPath' = [exitPath EXCEPT ![c] = "panic"]
    /\ lpc' = "returned"
    /\ UNCHANGED <<tempDelay, lclosed, serveRet, aerr, ktemp, isTLS, Handler>>
    /\ UNCHANGED <<nread, ncall, nret, cur, invoked, emitted,
                   rwcClosed, tlsState>>
    /\ UNCHANGED muxVars
    /\ UNCHANGED extVars

\* The deferred function of serve on a panic: recover(), the log entry,
\* c.rwc.Close().
ServeRecover(c) ==
    /\ cpc[c] = "panic"
    /\ ServeExit(c, "panic", rwcClosed)
    /\ UNCHANGED <<nread, ncall, nret, cur, invoked, emitted, tlsState>>
    /\ UNCHANGED muxVars
    /\ UNCHANGED srvVars
    /\ UNCHANGED extVars

(***************************************************************************)
(* ServeMux                                                                *)
(***************************************************************************)
\* mux.Handle(cmd, handler) is called and reaches mux.mu.Lock(): from now on
\* the call holds back new readers.
Handle ==
    /\ muWriter = <<>>
    /\ \E cmd \in Keys, h \in Handlers \cup {Nil} : muWriter' = <<cmd, h>>
    /\ UNCHANGED <<muxM, muxE, muReaders, muLocked, lastHandle>>
    /\ UNCHANGED <<srvVars, connVars>>
    /\ UNCHANGED extVars

\* mux.mu.Lock() returns to the waiting Handle call once the readers have
\* left and the lock is free.
HandleResume ==
    /\ muWriter /= <<>>
    /\ ~muLocked
    /\ muReaders = {}
    /\ muLocked' = TRUE
    /\ UNCHANGED <<muxM, muxE, muReaders, muWriter, lastHandle>>
    /\ UNCHANGED <<srvVars, connVars>>
    /\ UNCHANGED extVars

\* The body of Handle under the lock: the nil check, the assignment; the
\* call returns or panics, and the deferred Unlock runs.
HandleBody ==
    /\ muWriter /= <<>>
    /\ muLocked
    /\ muxM' = HandleStore(muxM, muWriter[1], muWriter[2])
    /\ lastHandle' = HandleOutcome(muxM, muWriter[1], muWriter[2])
    /\ muLocked' = HandleUnlock(muWriter[2])
    /\ muWriter' = <<>>
    /\ UNCHANGED <<muxE, muReaders>>
    /\ UNCHANGED <<srvVars, connVars>>
    /\ UNCHANGED extVars

\* A monitor receives from mux.ErrorReports().
Receive ==
    /\ muxE /= <<>>
    /\ muxE' = Tail(muxE)
    /\ UNCHANGED <<muxM, muReaders, muWriter, muLocked, lastHandle>>
    /\ UNCHANGED <<srvVars, connVars>>
    /\ UNCHANGED extVars

(***************************************************************************)
(* conn.closeNotify, liveSwitchReader and the pipe, on one connection      *)
(***************************************************************************)
Take(q, n) == SubSeq(q, 1, n)
Drop(q, n) == SubSeq(q, n + 1, Len(q))

\* What a Read of c.rwc can return now, as [n, err]: n bytes, or an error.
\* A closed socket fails; an expired deadline fails whatever has arrived;
\* with nothing to read, the end of the peer's stream is returned; with
\* nothing to read from a connected peer the Read waits.
RwcReads ==
    IF rwcClosed[TheConn] THEN { [n |-> 0, err |-> "closed"] }
    ELSE { [n |-> k, err |-> Nil] : k \in 1..Len(rwcIn) }
         \cup (IF rwcIn = <<>> /\ peer /= "connected"
               THEN { [n |-> 0, err |-> peer] } ELSE {})
         \cup (IF deadline = "set"
               THEN { [n |-> 0, err |-> "timeout"] } ELSE {})

\* What a Read of the pipe's read end can return now: bytes of the write in
\* progress, or the error the write end was closed with; else it waits.
PipeReads ==
    { [n |-> k, err |-> Nil] : k \in 1..Len(pipeW) }
    \cup (IF pipeW = <<>> /\ pipeErr /= Nil
          THEN { [n |-> 0, err |-> pipeErr] } ELSE {})

\* The peer sends one more byte.
PeerSend ==
    /\ peer = "connected"
    /\ sent < MaxBytes
    /\ sent' = sent + 1
    /\ rwcIn' = Append(rwcIn, sent + 1)
    /\ UNCHANGED <<closeNotifyc, clientGone, closes, cmu, req, srR, rdR,
                   deadline, peer, pipeW, pipeErr, copyPc, copyErr,
                   goneAfter, seen, rbuf, rmore>>
    /\ UNCHANGED <<srvVars, connVars, muxVars, hdrVars, wrVars>>

\* The peer disconnects: its stream ends cleanly or with a network fault.
PeerDisconnect ==
    /\ peer = "connected"
    /\ \E e \in { "EOF", "fault" } : peer' = e
    /\ goneAfter' = (closeNotifyc /= "nil")
    /\ UNCHANGED <<closeNotifyc, clientGone, closes, cmu, req, srR, rdR,
                   deadline, sent, rwcIn, pipeW, pipeErr, copyPc, copyErr,
                   seen, rbuf, rmore>>
    /\ UNCHANGED <<srvVars, connVars, muxVars, hdrVars, wrVars>>

\* readMessage has failed with err: close, report unless EOF, break.
ReadMessageFails(err) ==
    /\ ServeExit(TheConn, err, [rwcClosed EXCEPT ![TheConn] = TRUE])
    /\ IF ReportsReadErr(err) /\ IsErrorReporter(Handler)
       THEN /\ ErrorSelect(muxE) /= "block"
            /\ muxE' = ErrorSend(muxE, ErrorReport(Writer(TheConn), NilMessage, err))
            /\ emitted' = [emitted EXCEPT ![TheConn] =
                             <<ErrorReport(Writer(TheConn), NilMessage, err)>>]
       ELSE /\ emitted' = [emitted EXCEPT ![TheConn] = <<>>]
            /\ UNCHANGED muxE
    /\ UNCHANGED <<nread, cur>>

\* readMessage returns a message that took k of the n bytes the buffered
\* reader holds.
ReadMessageReturns(n, k) ==
    /\ rbuf' = n - k
    /\ rmore' = FALSE
    /\ \E m \in Msgs : cur' = [cur EXCEPT ![TheConn] = m]
    /\ nread' = [nread EXCEPT ![TheConn] = @ + 1]
    /\ emitted' = [emitted EXCEPT ![TheConn] = <<>>]
    /\ cpc' = [cpc EXCEPT ![TheConn] = "dispatch"]
    /\ UNCHANGED <<rwcClosed, exitPath, muxE>>

\* The error binary.Read returns when the reader fails with err: the end of
\* the stream after a part of the message is io.ErrUnexpectedEOF.
ReadFullErr(err, n) == IF err = "EOF" /\ n > 0 THEN "ErrUnexpectedEOF" ELSE err

\* readMessage arms the deadline when ReadTimeout is set and finds the next
\* message whole in the buffered reader: no Read of the socket or the pipe
\* is made. The message is returned, or fails to decode.
ReadMessageBuffered ==
    /\ cpc[TheConn] = "read"
    /\ rdR = Nil
    /\ ~rmore
    /\ rbuf > 0
    /\ deadline' = IF deadline = "off" THEN "off" ELSE "set"
    /\ \E k \in 1..rbuf :
          \/ ReadMessageReturns(rbuf, k)
          \/ /\ ReadMessageFails("fault")
             /\ rbuf' = rbuf - k
             /\ UNCHANGED rmore
    /\ UNCHANGED <<closeNotifyc, clientGone, closes, cmu, req, srR, rdR, peer,
                   sent, rwcIn, pipeW, pipeErr, copyPc, copyErr, goneAfter,
                   seen>>
    /\ UNCHANGED <<ncall, nret, invoked, tlsState>>
    /\ UNCHANGED <<muxM, muReaders, muWriter, muLocked, lastHandle>>
    /\ UNCHANGED <<srvVars, hdrVars, wrVars>>

\* readMessage arms the deadline when ReadTimeout is set; the buffered
\* reader holds no whole message and calls sr.Read: Lock; r := sr.r; Unlock.
\* The same when more bytes are needed after a Read.
SwitchReaderLoad ==
    /\ cpc[TheConn] = "read"
    /\ rdR = Nil
    /\ rdR' = srR
    /\ rmore' = TRUE
    /\ deadline' = IF deadline = "off" THEN "off" ELSE "set"
    /\ UNCHANGED <<closeNotifyc, clientGone, closes, cmu, req, srR, peer,
                   sent, rwcIn, pipeW, pipeErr, copyPc, copyErr, goneAfter,
                   seen, rbuf>>
    /\ UNCHANGED <<srvVars, connVars, muxVars, hdrVars, wrVars>>

\* sr.Read goes on: return r.Read(p). Bytes reach the buffered reader, and
\* either more are needed or they complete a message, which readMessage
\* returns to the loop or fails to decode; an error of the Read ends the
\* loop as in serve.
SwitchReaderRead ==
    /\ cpc[TheConn] = "read"
    /\ rdR /= Nil
    /\ rdR' = Nil
    /\ \E o \in (IF rdR = "rwc" THEN RwcReads ELSE PipeReads) :
        IF o.err = Nil
        THEN /\ seen' = seen \o Take(IF rdR = "rwc" THEN rwcIn ELSE pipeW, o.n)
             /\ IF rdR = "rwc"
                THEN /\ rwcIn' = Drop(rwcIn, o.n)
                     /\ UNCHANGED <<pipeW, copyPc>>
                ELSE /\ pipeW' = Drop(pipeW, o.n)
                     /\ copyPc' = IF o.n = Len(pipeW) THEN "read" ELSE copyPc
                     /\ UNCHANGED rwcIn
             /\ \/ /\ rbuf' = rbuf + o.n
                   /\ UNCHANGED <<rmore, cpc, nread, cur, emitted,
                                  rwcClosed, exitPath, muxE>>
                \/ \E k \in (rbuf + 1)..(rbuf + o.n) :
                      \/ ReadMessageReturns(rbuf + o.n, k)
                      \/ /\ ReadMessageFails("fault")
                         /\ rbuf' = rbuf + o.n - k
                         /\ UNCHANGED rmore
        ELSE /\ ReadMessageFails(ReadFullErr(o.err, rbuf))
             /\ UNCHANGED <<seen, rwcIn, pipeW, copyPc, rbuf, rmore>>
    /\ UNCHANGED <<closeNotifyc, clientGone, closes, cmu, req, srR, deadline,
                   peer, sent, pipeErr, copyErr, goneAfter>>
    /\ UNCHANGED <<ncall, nret, invoked, tlsState>>
    /\ UNCHANGED <<muxM, muReaders, muWriter, muLocked, lastHandle>>
    /\ UNCHANGED <<srvVars, hdrVars, wrVars>>

\* CloseNotify called by goroutine g: c.mu.Lock().
CloseNotifyLock(g) ==
    /\ req[g] = "idle"
    /\ cmu = Nil
    /\ IF g = "handler"
       THEN cpc[TheConn] = "handler" /\ ~InsideConnCall(TheConn)
       ELSE ConnGiven(TheConn)
    /\ cmu' = g
    /\ req' = [req EXCEPT ![g] = "locked"]
    /\ UNCHANGED <<closeNotifyc, clientGone, closes, srR, rdR, deadline, peer,
                   sent, rwcIn, pipeW, pipeErr, copyPc, copyErr, goneAfter,
                   seen, rbuf, rmore>>
    /\ UNCHANGED <<srvVars, connVars, muxVars, hdrVars, wrVars>>

\* The body of closeNotify under c.mu: the first call makes the channel,
\* puts the pipe's read end in sr.r and starts the copy from the old reader;
\* every call returns the channel, and the deferred Unlock runs.
CloseNotifyBody(g) ==
    /\ req[g] = "locked"
    /\ IF closeNotifyc = "nil"
       THEN /\ closeNotifyc' = "open"
            /\ srR' = "pr"
            /\ copyPc' = "read"
       ELSE UNCHANGED <<closeNotifyc, srR, copyPc>>
    /\ cmu' = Nil
    /\ req' = [req EXCEPT ![g] = "holds"]
    /\ UNCHANGED <<clientGone, closes, rdR, deadline, peer, sent, rwcIn,
                   pipeW, pipeErr, copyErr, goneAfter, seen, rbuf, rmore>>
    /\ UNCHANGED <<srvVars, connVars, muxVars, hdrVars, wrVars>>

\* The handler receives from the channel CloseNotify gave it: it waits.
HandlerWait ==
    /\ cpc[TheConn] = "handler"
    /\ req["handler"] = "holds"
    /\ ~InsideConnCall(TheConn)
    /\ cpc' = [cpc EXCEPT ![TheConn] = "wait"]
    /\ UNCHANGED <<nread, ncall, nret, cur, invoked, emitted, rwcClosed,
                   tlsState, exitPath>>
    /\ UNCHANGED <<srvVars, muxVars, extVars>>

\* The receive returns once the channel is closed.
HandlerWake ==
    /\ cpc[TheConn] = "wait"
    /\ closeNotifyc = "closed"
    /\ cpc' = [cpc EXCEPT ![TheConn] = "handler"]
    /\ UNCHANGED <<nread, ncall, nret, cur, invoked, emitted, rwcClosed,
                   tlsState, exitPath>>
    /\ UNCHANGED <<srvVars, muxVars, extVars>>

\* A copy that ends after its first chunk instead of reading on.
CopyReadOnce ==
    /\ copyPc = "read"
    /\ \E o \in RwcReads :
        IF o.err = Nil
        THEN /\ pipeW' = <<>>
             /\ rwcIn' = Drop(rwcIn, o.n)
             /\ copyPc' = "close"
             /\ UNCHANGED copyErr
        ELSE /\ copyErr' = o.err
             /\ copyPc' = "close"
             /\ UNCHANGED <<pipeW, rwcIn>>
    /\ UNCHANGED <<closeNotifyc, clientGone, closes, cmu, req, srR, rdR,
                   deadline, peer, sent, pipeErr, goneAfter, seen, rbuf, rmore>>
    /\ UNCHANGED <<srvVars, connVars, muxVars, hdrVars, wrVars>>

\* io.Copy(pw, readSource) reads the old reader: bytes go into a pw.Write,
\* an error or the end of the stream ends the copy.
CopyRead ==
    /\ copyPc = "read"
    /\ \E o \in RwcReads :
        IF o.err = Nil
        THEN /\ pipeW' = Take(rwcIn, o.n)
             /\ rwcIn' = Drop(rwcIn, o.n)
             /\ copyPc' = "write"
             /\ UNCHANGED copyErr
        ELSE /\ copyErr' = o.err
             /\ copyPc' = "close"
             /\ UNCHANGED <<pipeW, rwcIn>>
    /\ UNCHANGED <<closeNotifyc, clientGone, closes, cmu, req, srR, rdR,
                   deadline, peer, sent, pipeErr, goneAfter, seen, rbuf, rmore>>
    /\ UNCHANGED <<srvVars, connVars, muxVars, hdrVars, wrVars>>

\* if err == nil { err = io.EOF }; pw.CloseWithError(err).
CopyClose ==
    /\ copyPc = "close"
    /\ pipeErr' = IF copyErr = Nil THEN "EOF" ELSE copyErr
    /\ copyPc' = "lock"
    /\ UNCHANGED <<closeNotifyc, clientGone, closes, cmu, req, srR, rdR,
                   deadline, peer, sent, rwcIn, pipeW, copyErr, goneAfter,
                   seen, rbuf, rmore>>
    /\ UNCHANGED <<srvVars, connVars, muxVars, hdrVars, wrVars>>

\* c.notifyClientGone(): c.mu.Lock().
NotifyLock ==
    /\ copyPc = "lock"
    /\ cmu = Nil
    /\ cmu' = "copy"
    /\ copyPc' = "notify"
    /\ UNCHANGED <<closeNotifyc, clientGone, closes, req, srR, rdR, deadline,
                   peer, sent, rwcIn, pipeW, pipeErr, copyErr, goneAfter,
                   seen, rbuf, rmore>>
    /\ UNCHANGED <<srvVars, connVars, muxVars, hdrVars, wrVars>>

\* The body of notifyClientGone under c.mu, and the deferred Unlock.
NotifyClientGone ==
    /\ copyPc = "notify"
    /\ IF closeNotifyc /= "nil" /\ ~clientGone
       THEN /\ closeNotifyc' = "closed"
            /\ closes' = closes + 1
            /\ clientGone' = TRUE
       ELSE UNCHANGED <<closeNotifyc, closes, clientGone>>
    /\ cmu' = Nil
    /\ copyPc' = "done"
    /\ UNCHANGED <<req, srR, rdR, deadline, peer, sent, rwcIn, pipeW,
                   pipeErr, copyErr, goneAfter, seen, rbuf, rmore>>
    /\ UNCHANGED <<srvVars, connVars, muxVars, hdrVars, wrVars>>

(***************************************************************************)
(* The header codec (header.go)                                            *)
(***************************************************************************)
\* Size of the Header struct on the wire: 1 + 3 + 1 + 3 + 4 + 4 + 4 bytes.
HeaderSize == 20

\* A uint32 as its two 16-bit halves <<high, low>>, so that the whole
\* range up to 2^32 - 1 can be written down; Uint32(n) for n below 2^31.
Uint32(n) == << n \div 65536, n % 65536 >>
MaxUint32 == << 65535, 65535 >>

\* Field values headers are made of: the ends of each range and values in
\* between, different for the three identifiers.
Versions == { 0, 1, 2, 255 }
Lengths == { 0, 20, 65793, 16777215 }
Codes == { 0, CECommandCode, CCCommandCode, 16777215 }
FlagBytes == { 0, RequestFlag, 255 }
AppIds == { Uint32(0), Uint32(GxApplicationID), MaxUint32 }
HopIds == { Uint32(1), Uint32(2147418113), MaxUint32 }
EndIds == { Uint32(2), MaxUint32 }

\* uint32To24: the three low bytes of n, most significant first.
uint32To24(n) == << (n \div 65536) % 256, (n \div 256) % 256, n % 256 >>

\* uint24To32: the number three bytes stand for, most significant first.
uint24To32(a) == a[1] * 65536 + a[2] * 256 + a[3]

\* The Header struct for the field values v.
MakeHeader(v) ==
    [ Version          |-> v.Version,
      RawMessageLength |-> uint32To24(v.MessageLength),
      CommandFlags     |-> v.CommandFlags,
      RawCommandCode   |-> uint32To24(v.CommandCode),
      ApplicationId    |-> v.ApplicationId,
      HopByHopId       |-> v.HopByHopId,
      EndToEndId       |-> v.EndToEndId ]

\* The four bytes of a uint32 in network order.
PutUint32(n) ==
    << n[1] \div 256, n[1] % 256, n[2] \div 256, n[2] % 256 >>

\* The 20-byte encoding of a Header: its fields in declaration order,
\* numbers in network order.
EncodeHeader(h) ==
    <<h.Version>> \o h.RawMessageLength \o <<h.CommandFlags>>
        \o h.RawCommandCode \o PutUint32(h.ApplicationId)
        \o PutUint32(h.HopByHopId) \o PutUint32(h.EndToEndId)

\* A decoder that takes the least significant byte first.
LittleEndianUint32(b) == << b[4] * 256 + b[3], b[2] * 256 + b[1] >>

\* binary.BigEndian: the uint32 four bytes stand for.
BigEndianUint32(b) == << b[1] * 256 + b[2], b[3] * 256 + b[4] >>

\* binary.Read(r, binary.BigEndian, hdr) on HeaderSize bytes b: the fields
\* of Header filled in declaration order.
BinaryRead(b) ==
    [ Version          |-> b[1],
      RawMessageLength |-> SubSeq(b, 2, 4),
      CommandFlags     |-> b[5],
      RawCommandCode   |-> SubSeq(b, 6, 8),
      ApplicationId    |-> BigEndianUint32(SubSeq(b, 9, 12)),
      HopByHopId       |-> BigEndianUint32(SubSeq(b, 13, 16)),
      EndToEndId       |-> BigEndianUint32(SubSeq(b, 17, 20)) ]

\* A ReadHeader that checks the version byte before it has read the rest.
ReadHeaderVersionFirst(r) ==
    IF Len(r) = 0 THEN [hdr |-> NilHeader, err |-> "EOF"]
    ELSE IF r[1] /= 1
    THEN [hdr |-> NilHeader, err |-> "Invalid diameter version"]
    ELSE IF Len(r) < HeaderSize
    THEN [hdr |-> NilHeader, err |-> "ErrUnexpectedEOF"]
    ELSE [hdr |-> BinaryRead(Take(r, HeaderSize)), err |-> Nil]

\* ReadHeader(r) on a reader that delivers the bytes r and then ends:
\* binary.Read fills the struct from HeaderSize bytes or fails with io.EOF
\* (nothing read) or io.ErrUnexpectedEOF (some read); then the version check.
ReadHeader(r) ==
    IF Len(r) < HeaderSize
    THEN [hdr |-> NilHeader,
          err |-> IF Len(r) = 0 THEN "EOF" ELSE "ErrUnexpectedEOF"]
    ELSE LET hdr == BinaryRead(Take(r, HeaderSize))
         IN  IF hdr.Version /= 1
             THEN [hdr |-> NilHeader, err |-> "Invalid diameter version"]
             ELSE [hdr |-> hdr, err |-> Nil]

\* hdr.MessageLength() and hdr.CommandCode().
MessageLength(hdr) == uint24To32(hdr.RawMessageLength)
CommandCode(hdr) == uint24To32(hdr.RawCommandCode)

\* The peer writes the header made of the field values hin.
HeaderEncode ==
    /\ hpc = "input"
    /\ stream' = EncodeHeader(MakeHeader(hin))
    /\ hpc' = "stream"
    /\ UNCHANGED <<hin, hres>>
    /\ UNCHANGED <<srvVars, connVars, muxVars, notifyVars, wrVars>>

\* The stream ends before the header is complete.
StreamEndsEarly ==
    /\ hpc = "stream"
    /\ Len(stream) = HeaderSize
    /\ \E n \in 0..(HeaderSize - 1) : stream' = Take(stream, n)
    /\ UNCHANGED <<hpc, hin, hres>>
    /\ UNCHANGED <<srvVars, connVars, muxVars, notifyVars, wrVars>>

\* The stream goes on after the header, with the first byte of the body.
StreamGoesOn ==
    /\ hpc = "stream"
    /\ Len(stream) = HeaderSize
    /\ \E b \in { 0, 1 } : stream' = Append(stream, b)
    /\ UNCHANGED <<hpc, hin, hres>>
    /\ UNCHANGED <<srvVars, connVars, muxVars, notifyVars, wrVars>>

\* ReadHeader is called on the stream.
ReadHeaderCall ==
    /\ hpc = "stream"
    /\ hres' = ReadHeader(stream)
    /\ hpc' = "read"
    /\ UNCHANGED <<hin, stream>>
    /\ UNCHANGED <<srvVars, connVars, muxVars, notifyVars, wrVars>>

\* Registrations made at configuration time, before Serve is called:
\* HandleFunc("CCR", h1) and HandleFunc("ALL", h2), nothing under "CCA".
StartupTable ==
    [k \in Keys |-> IF k = "CCR" THEN "h1"
                    ELSE IF k = "ALL" THEN "h2" ELSE NoEntry]

\* A configuration without a catch-all: HandleFunc("CCR", h1) and no more.
StartupTableNoAll == [k \in Keys |-> IF k = "CCR" THEN "h1" ELSE NoEntry]

InitStartup ==
    /\ InitServer
    /\ InitConns
    /\ muxM = StartupTable
    /\ muxE = <<>>
    /\ muReaders = {}
    /\ muWriter = <<>>
    /\ muLocked = FALSE
    /\ lastHandle = NoHandle
    /\ InitExt

Next ==
    \/ AcceptOK
    \/ AcceptPermanent
    \/ \E c \in Conns : ServeStart(c)
    \/ \E c \in Conns : ReadOK(c)
    \/ \E c \in Conns : ReadFail(c)
    \/ \E c \in Conns : Dispatch(c)
    \/ \E c \in Conns : ResponseClose(c)
    \/ \E c \in Conns : HandlerReturn(c)
    \/ \E c \in Conns : HandlerPanic(c)
    \/ \E c \in Conns : ServeRecover(c)
    \/ Receive

\* The server as configured at startup: the listener hands out sockets or
\* fails for good, the serving loops run, a monitor drains the error mailbox.
Spec == InitStartup /\ [][Next]_vars

NextAccept ==
    \/ AcceptOK
    \/ AcceptTemporary
    \/ SleepDone
    \/ AcceptPermanent
    \/ \E c \in Conns : ServeStart(c)
    \/ \E c \in Conns : ReadFail(c)

\* The accept loop with its backoff, over connections that end at once.
SpecAccept == InitStartup /\ [][NextAccept]_vars

\* One accepted connection served by the DefaultServeMux of a plain listener.
InitMuxServing ==
    /\ lpc = "accept"
    /\ tempDelay = 0
    /\ lclosed = FALSE
    /\ serveRet = Nil
    /\ aerr = Nil
    /\ ktemp = 0
    /\ isTLS = FALSE
    /\ Handler = Nil
    /\ cpc = [c \in Conns |-> IF c = 1 THEN "start" ELSE "none"]
    /\ nread = [c \in Conns |-> 0]
    /\ ncall = [c \in Conns |-> 0]
    /\ nret = [c \in Conns |-> 0]
    /\ cur = [c \in Conns |-> NilMessage]
    /\ invoked = [c \in Conns |-> <<>>]
    /\ emitted = [c \in Conns |-> <<>>]
    /\ rwcClosed = [c \in Conns |-> FALSE]
    /\ tlsState = [c \in Conns |-> Nil]
    /\ exitPath = [c \in Conns |-> "none"]
    /\ InitMux
    /\ InitExt

NextMux ==
    \/ \E c \in Conns : ServeStart(c)
    \/ \E c \in Conns : ReadOK(c)
    \/ \E c \in Conns : ReadFail(c)
    \/ \E c \in Conns : Dispatch(c)
    \/ \E c \in Conns : ResponseClose(c)
    \/ \E c \in Conns : HandlerReturn(c)
    \/ \E c \in Conns : HandlerPanic(c)
    \/ \E c \in Conns : ServeRecover(c)
    \/ Handle
    \/ HandleResume
    \/ HandleBody
    \/ Receive

\* The multiplexer while handlers are registered and messages dispatched.
SpecMux == InitMuxServing /\ [][NextMux]_vars

\* One connection of a plain listener with a handler of its own is being
\* served; Server.ReadTimeout is set or not.
InitNotify ==
    /\ lpc = "accept"
    /\ tempDelay = 0
    /\ lclosed = FALSE
    /\ serveRet = Nil
    /\ aerr = Nil
    /\ ktemp = 0
    /\ isTLS = FALSE
    /\ Handler = Custom
    /\ cpc = [c \in Conns |-> IF c = TheConn THEN "read" ELSE "none"]
    /\ nread = [c \in Conns |-> 0]
    /\ ncall = [c \in Conns |-> 0]
    /\ nret = [c \in Conns |-> 0]
    /\ cur = [c \in Conns |-> NilMessage]
    /\ invoked = [c \in Conns |-> <<>>]
    /\ emitted = [c \in Conns |-> <<>>]
    /\ rwcClosed = [c \in Conns |-> FALSE]
    /\ tlsState = [c \in Conns |-> Nil]
    /\ exitPath = [c \in Conns |-> "none"]
    /\ InitMux
    /\ closeNotifyc = "nil"
    /\ clientGone = FALSE
    /\ closes = 0
    /\ cmu = Nil
    /\ req = [g \in Requesters |-> "idle"]
    /\ srR = "rwc"
    /\ rdR = Nil
    /\ deadline \in { "off", "unset" }
    /\ peer = "connected"
    /\ sent = 0
    /\ rwcIn = <<>>
    /\ pipeW = <<>>
    /\ pipeErr = Nil
    /\ copyPc = "none"
    /\ copyErr = Nil
    /\ goneAfter = FALSE
    /\ seen = <<>>
    /\ rbuf = 0
    /\ rmore = FALSE
    /\ InitHeaderIdle
    /\ InitWriteIdle

NextNotify ==
    \/ PeerSend
    \/ PeerDisconnect
    \/ ReadMessageBuffered
    \/ SwitchReaderLoad
    \/ SwitchReaderRead
    \/ HandlerWait
    \/ HandlerWake
    \/ Dispatch(TheConn)
    \/ HandlerReturn(TheConn)
    \/ ResponseClose(TheConn)
    \/ \E g \in Requesters : CloseNotifyLock(g)
    \/ \E g \in Requesters : CloseNotifyBody(g)
    \/ CopyRead
    \/ CopyClose
    \/ NotifyLock
    \/ NotifyClientGone

\* One connection whose Conn is asked for its CloseNotify channel, by the
\* handler and by another goroutine, while the peer sends and disconnects.
SpecNotify == InitNotify /\ [][NextNotify]_vars

\* The same connection under the Go scheduler: a goroutine that can run
\* does run. The serving loop (its reads, a handler that returns or wakes
\* up), the copy goroutine and a CloseNotify call that holds c.mu all go on;
\* the peer and the callers of CloseNotify act when they like.
SpecNotifyFair ==
    /\ InitNotify
    /\ [][NextNotify]_vars
    /\ WF_vars(ReadMessageBuffered)
    /\ WF_vars(SwitchReaderLoad)
    /\ WF_vars(SwitchReaderRead)
    /\ WF_vars(Dispatch(TheConn))
    /\ WF_vars(HandlerWake)
    /\ WF_vars(HandlerReturn(TheConn))
    /\ WF_vars(\E g \in Requesters : CloseNotifyBody(g))
    /\ WF_vars(CopyRead)
    /\ WF_vars(CopyClose)
    /\ WF_vars(NotifyLock)
    /\ WF_vars(NotifyClientGone)

\* A header of any field values is about to be written to a stream.
InitHeader ==
    /\ InitServer
    /\ isTLS = FALSE
    /\ Handler = Nil
    /\ InitConns
    /\ InitMux
    /\ InitNotifyIdle
    /\ InitWriteIdle
    /\ hpc = "input"
    /\ hin \in [ Version : Versions, MessageLength : Lengths,
                 CommandFlags : FlagBytes, CommandCode : Codes,
                 ApplicationId : AppIds, HopByHopId : HopIds,
                 EndToEndId : EndIds ]
    /\ stream = <<>>
    /\ hres = NoResult

NextHeader ==
    \/ HeaderEncode
    \/ StreamEndsEarly
    \/ StreamGoesOn
    \/ ReadHeaderCall

\* ReadHeader applied to encoded headers, whole, cut short or followed by
\* more bytes.
SpecHeader == InitHeader /\ [][NextHeader]_vars

\* A plain listener served by the DefaultServeMux as registered at
\* startup, with no connection accepted yet.
InitShared ==
    /\ InitStartup
    /\ isTLS = FALSE
    /\ Handler = Nil

NextShared ==
    \/ AcceptOK
    \/ \E c \in Conns : ServeStart(c)
    \/ \E c \in Conns : ReadOK(c)
    \/ \E c \in Conns : Dispatch(c)
    \/ \E c \in Conns : HandlerReturn(c)
    \/ \E c \in Conns : HandlerPanic(c)
    \/ \E c \in Conns : ServeRecover(c)
    \/ Handle
    \/ HandleResume
    \/ HandleBody

\* Several connections dispatch through one multiplexer while the
\* application registers handlers and the listener hands out sockets.
SpecShared == InitShared /\ [][NextShared]_vars

(***************************************************************************)
(* response.Write and the buffered writer, on one connection               *)
(***************************************************************************)

\* Errors c.rwc.Write can return; a timeout needs a write deadline.
SockErrs(dl) == IF dl = "set" THEN { "EPIPE", "timeout" } ELSE { "EPIPE" }

\* Bytes i..j of message b.
Bytes(b, i, j) ==
    [k \in 1..(j - i + 1) |->
        [who |-> b.who, no |-> b.no, i |-> i + k - 1, of |-> b.of]]

\* c.rwc.Write(p) up to the point where it returns or waits: a socket closed
\* on this side takes nothing and fails at once; an open one takes all of p
\* and returns, or takes fewer bytes and waits for room.
SockWrites(p) ==
    IF rwcClosed[TheConn] THEN { [n |-> 0, st |-> "closed"] }
    ELSE { [n |-> Len(p), st |-> "done"] } \cup
         { [n |-> k, st |-> "waits"] : k \in 0..(Len(p) - 1) }

\* How a waiting c.rwc.Write ends: the socket takes the rest (Nil), or the
\* write fails; Close on this side wakes it with the error of the closed
\* socket, whatever was taken before.
SockWakes(dl) == IF rwcClosed[TheConn] THEN { "closed" } ELSE { Nil } \cup SockErrs(dl)

\* Writer.Available()
Available == WriterSize - Len(wbuf)

\* w.mu.Lock() returns once no goroutine holds w.mu.
ResponseLockNoWait(holder) == TRUE

ResponseLock(holder) == holder = Nil

\* Write returns (n, err) to g; the deferred w.mu.Unlock() runs.
WriteReturn(g, n, err) ==
    /\ wres' = [wres EXCEPT ![g] = Append(@, [b |-> wmsg[g].of, n |-> n, err |-> err])]
    /\ wmsg' = [wmsg EXCEPT ![g] = NoBytes]
    /\ wpc' = [wpc EXCEPT ![g] = "idle"]
    /\ wmu' = Nil

\* Write calls made so far, returned or not.
WriteCalls ==
    Len(wres["handler"]) + Len(wres["other"])
       + Cardinality({ g \in Requesters : wpc[g] /= "idle" })

\* Goroutine g calls Write(b) and reaches w.mu.Lock().
WriteCall(g) ==
    /\ wpc[g] = "idle"
    /\ g = "handler" => cpc[TheConn] = "handler" /\ ~InsideConnCall(TheConn)
    /\ WriteCalls < MaxCalls
    /\ \E n \in 1..MaxLen :
          wmsg' = [wmsg EXCEPT ![g] = [who |-> g, no |-> Len(wres[g]) + 1, of |-> n, at |-> 0]]
    /\ wpc' = [wpc EXCEPT ![g] = "lock"]
    /\ UNCHANGED <<wmu, wbuf, berr, rwcOut, wres, wdeadline>>
    /\ UNCHANGED <<srvVars, connVars, muxVars, notifyVars, hdrVars>>

\* w.mu.Lock() returns; the write deadline is set when WriteTimeout > 0.
WriteLock(g) ==
    /\ wpc[g] = "lock"
    /\ ResponseLock(wmu)
    /\ wmu' = g
    /\ wdeadline' = IF wdeadline = "off" THEN "off" ELSE "set"
    /\ wpc' = [wpc EXCEPT ![g] = "write"]
    /\ UNCHANGED <<wmsg, wbuf, berr, rwcOut, wres>>
    /\ UNCHANGED <<srvVars, connVars, muxVars, notifyVars, hdrVars>>

\* One round of the loop of Writer.Write, taken while the rest of b does not
\* fit: an empty buffer passes the rest straight to c.rwc, otherwise the
\* buffer is filled and flushed.  The call of c.rwc.Write returns here or is
\* left waiting.
WriteLoop(g) ==
    /\ wpc[g] = "write"
    /\ berr = Nil
    /\ wmsg[g].of - wmsg[g].at > Available
    /\ IF Len(wbuf) = 0
       THEN \E r \in SockWrites(Bytes(wmsg[g], wmsg[g].at + 1, wmsg[g].of)) :
               /\ rwcOut' = rwcOut \o Bytes(wmsg[g], wmsg[g].at + 1, wmsg[g].at + r.n)
               /\ berr' = IF r.st = "closed" THEN "closed" ELSE Nil
               /\ wmsg' = [wmsg EXCEPT ![g].at = @ + r.n]
               /\ wpc' = [wpc EXCEPT ![g] = IF r.st = "waits" THEN "sockwrite" ELSE "write"]
               /\ UNCHANGED wbuf
       ELSE LET full == wbuf \o Bytes(wmsg[g], wmsg[g].at + 1, wmsg[g].at + Available)
            IN  \E r \in SockWrites(full) :
                   /\ rwcOut' = rwcOut \o SubSeq(full, 1, r.n)
                   /\ wbuf' = SubSeq(full, r.n + 1, Len(full))
                   /\ berr' = IF r.st = "closed" THEN "closed" ELSE Nil
                   /\ wmsg' = [wmsg EXCEPT ![g].at = @ + Available]
                   /\ wpc' = [wpc EXCEPT ![g] = IF r.st = "waits" THEN "sockfill" ELSE "write"]
    /\ UNCHANGED <<wmu, wres, wdeadline>>
    /\ UNCHANGED <<srvVars, connVars, muxVars, notifyVars, hdrVars>>

\* The end of Writer.Write: with an error set it returns it, and Write
\* returns (0, err); otherwise the rest of b is copied into the buffer.
WriteCopy(g) ==
    /\ wpc[g] = "write"
    /\ berr /= Nil \/ wmsg[g].of - wmsg[g].at <= Available
    /\ IF berr /= Nil
       THEN /\ WriteReturn(g, 0, berr)
            /\ UNCHANGED <<wbuf, berr, rwcOut, wdeadline>>
       ELSE /\ wbuf' = wbuf \o Bytes(wmsg[g], wmsg[g].at + 1, wmsg[g].of)
            /\ wmsg' = [wmsg EXCEPT ![g].at = wmsg[g].of]
            /\ wpc' = [wpc EXCEPT ![g] = "flush"]
            /\ UNCHANGED <<wmu, berr, rwcOut, wres, wdeadline>>
    /\ UNCHANGED <<srvVars, connVars, muxVars, notifyVars, hdrVars>>

\* Writer.Flush(), then Write returns (0, err) or (n, nil); the call of
\* c.rwc.Write inside Flush returns here or is left waiting.
WriteFlush(g) ==
    /\ wpc[g] = "flush"
    /\ IF berr /= Nil
       THEN /\ WriteReturn(g, 0, berr)
            /\ UNCHANGED <<wbuf, berr, rwcOut>>
       ELSE IF Len(wbuf) = 0
       THEN /\ WriteReturn(g, wmsg[g].at, Nil)
            /\ UNCHANGED <<wbuf, berr, rwcOut>>
       ELSE \E r \in SockWrites(wbuf) :
               /\ rwcOut' = rwcOut \o SubSeq(wbuf, 1, r.n)
               /\ wbuf' = SubSeq(wbuf, r.n + 1, Len(wbuf))
               /\ berr' = IF r.st = "closed" THEN "closed" ELSE Nil
               /\ IF r.st = "waits"
                  THEN /\ wpc' = [wpc EXCEPT ![g] = "sockflush"]
                       /\ UNCHANGED <<wmu, wmsg, wres>>
                  ELSE IF r.st = "closed"
                  THEN WriteReturn(g, 0, "closed")
                  ELSE WriteReturn(g, wmsg[g].at, Nil)
    /\ UNCHANGED wdeadline
    /\ UNCHANGED <<srvVars, connVars, muxVars, notifyVars, hdrVars>>

\* The call of c.rwc.Write that g is waiting in returns: the socket has taken
\* the rest, or the call fails with the bytes taken so far left on the
\* socket.  Inside Writer.Write the loop goes on; inside the last Flush,
\* Write returns.
SockWriteEnds(g) ==
    /\ wpc[g] \in { "sockwrite", "sockfill", "sockflush" }
    /\ \E e \in SockWakes(wdeadline) :
          /\ berr' = e
          /\ IF e /= Nil
             THEN /\ UNCHANGED <<rwcOut, wbuf>>
                  /\ IF wpc[g] = "sockflush"
                     THEN WriteReturn(g, 0, e)
                     ELSE /\ wpc' = [wpc EXCEPT ![g] = "write"]
                          /\ UNCHANGED <<wmu, wmsg, wres>>
             ELSE IF wpc[g] = "sockwrite"
             THEN /\ rwcOut' = rwcOut \o Bytes(wmsg[g], wmsg[g].at + 1, wmsg[g].of)
                  /\ wmsg' = [wmsg EXCEPT ![g].at = wmsg[g].of]
                  /\ wpc' = [wpc EXCEPT ![g] = "write"]
                  /\ UNCHANGED <<wbuf, wmu, wres>>
             ELSE /\ rwcOut' = rwcOut \o wbuf
                  /\ wbuf' = <<>>
                  /\ IF wpc[g] = "sockflush"
                     THEN WriteReturn(g, wmsg[g].at, Nil)
                     ELSE /\ wpc' = [wpc EXCEPT ![g] = "write"]
                          /\ UNCHANGED <<wmu, wmsg, wres>>
    /\ UNCHANGED wdeadline
    /\ UNCHANGED <<srvVars, connVars, muxVars, notifyVars, hdrVars>>

\* The handler of one connection is running on a request; it and another
\* goroutine hold the Conn; Server.WriteTimeout is set or not.
InitWrite ==
    /\ InitServer
    /\ isTLS = FALSE
    /\ Handler = Custom
    /\ cpc = [c \in Conns |-> IF c = TheConn THEN "handler" ELSE "none"]
    /\ nread = [c \in Conns |-> IF c = TheConn THEN 1 ELSE 0]
    /\ ncall = [c \in Conns |-> IF c = TheConn THEN 1 ELSE 0]
    /\ nret = [c \in Conns |-> 0]
    /\ LET m == [app |-> GxApplicationID, code |-> CCCommandCode,
                  flags |-> RequestFlag]
       IN  /\ cur = [c \in Conns |-> IF c = TheConn THEN m ELSE NilMessage]
           /\ invoked = [c \in Conns |->
                           IF c = TheConn
                           THEN <<Invocation(Custom, Nil, Writer(c), m)>>
                           ELSE <<>>]
    /\ emitted = [c \in Conns |-> <<>>]
    /\ rwcClosed = [c \in Conns |-> FALSE]
    /\ tlsState = [c \in Conns |-> Nil]
    /\ exitPath = [c \in Conns |-> "none"]
    /\ InitMux
    /\ InitNotifyIdle
    /\ InitHeaderIdle
    /\ wmu = Nil
    /\ wpc = [g \in Requesters |-> "idle"]
    /\ wmsg = [g \in Requesters |-> NoBytes]
    /\ wbuf = <<>>
    /\ berr = Nil
    /\ rwcOut = <<>>
    /\ wres = [g \in Requesters |-> <<>>]
    /\ wdeadline \in { "off", "unset" }

NextWrite ==
    \/ \E g \in Requesters : WriteCall(g)
    \/ \E g \in Requesters : WriteLock(g)
    \/ \E g \in Requesters : WriteLoop(g)
    \/ \E g \in Requesters : WriteCopy(g)
    \/ \E g \in Requesters : WriteFlush(g)
    \/ \E g \in Requesters : SockWriteEnds(g)
    \/ ResponseClose(TheConn)

\* Concurrent Write calls on one connection, over a socket that can fail.
SpecWrite == InitWrite /\ [][NextWrite]_vars

\* One accepted connection of a plain listener, served by the multiplexer
\* with the handlers registered at startup, with or without a catch-all; the
\* handlers answer with Write.
InitMuxWrite ==
    /\ lpc = "accept"
    /\ tempDelay = 0
    /\ lclosed = FALSE
    /\ serveRet = Nil
    /\ aerr = Nil
    /\ ktemp = 0
    /\ isTLS = FALSE
    /\ Handler = Nil
    /\ cpc = [c \in Conns |-> IF c = TheConn THEN "start" ELSE "none"]
    /\ nread = [c \in Conns |-> 0]
    /\ ncall = [c \in Conns |-> 0]
    /\ nret = [c \in Conns |-> 0]
    /\ cur = [c \in Conns |-> NilMessage]
    /\ invoked = [c \in Conns |-> <<>>]
    /\ emitted = [c \in Conns |-> <<>>]
    /\ rwcClosed = [c \in Conns |-> FALSE]
    /\ tlsState = [c \in Conns |-> Nil]
    /\ exitPath = [c \in Conns |-> "none"]
    /\ muxM \in { StartupTable, StartupTableNoAll }
    /\ muxE = <<>>
    /\ muReaders = {}
    /\ muWriter = <<>>
    /\ muLocked = FALSE
    /\ lastHandle = NoHandle
    /\ InitExt

NextMuxWrite ==
    \/ ServeStart(TheConn)
    \/ ReadOK(TheConn)
    \/ ReadFail(TheConn)
    \/ Dispatch(TheConn)
    \/ ResponseClose(TheConn)
    \/ HandlerReturn(TheConn)
    \/ WriteCall("handler")
    \/ WriteLock("handler")
    \/ WriteLoop("handler")
    \/ WriteCopy("handler")
    \/ WriteFlush("handler")
    \/ SockWriteEnds("handler")
    \/ Receive

\* Dispatch on a connection whose handlers write their answers to it.
SpecMuxWrite == InitMuxWrite /\ [][NextMuxWrite]_vars

(***************************************************************************)
(* Properties.                                                             *)
(***************************************************************************)
\* Everything the model keeps about connection c.
ConnState(c) ==
    <<cpc[c], nread[c], ncall[c], nret[c], cur[c], invoked[c], emitted[c],
      rwcClosed[c], tlsState[c], exitPath[c]>>

\* C1: conn.serve never pipelines. A read is in progress only when every
\* message read so far has been handed to the server handler and that call
\* has returned; each message read is handed over once, and the message a
\* running handler holds is the one just read, on this connection.
C1_SequentialDispatch ==
    \A c \in Conns :
        /\ nret[c] <= ncall[c]
        /\ ncall[c] <= nread[c]
        /\ nread[c] <= nret[c] + 1
        /\ cpc[c] = "read" => ncall[c] = nread[c] /\ nret[c] = nread[c]
        /\ cpc[c] = "dispatch" => ncall[c] = nread[c] - 1 /\ nret[c] = ncall[c]
        /\ cpc[c] = "handler" =>
              /\ ncall[c] = nread[c]
              /\ nret[c] = nread[c] - 1
              /\ Len(invoked[c]) = 1
              /\ invoked[c][1].Message = cur[c]
              /\ invoked[c][1].Conn = Writer(c)

\* The second message of a connection is in its handler, the first returned.
C1_Witness ==
    \E c \in Conns :
        cpc[c] = "handler" /\ nread[c] = MaxMsgs /\ nret[c] = MaxMsgs - 1

\* C2: a handler panic on connection c is caught at c's serving boundary:
\* while it unwinds and when the deferred function of serve recovers it,
\* neither the accept loop nor any other connection changes, and it ends
\* c's serving loop with c's socket closed and nothing else.
C2_PanicContained ==
    [][\A c \in Conns :
          /\ (cpc[c] = "handler" /\ cpc'[c] = "panic") =>
                /\ srvVars' = srvVars
                /\ \A d \in Conns \ {c} : ConnState(d)' = ConnState(d)
          /\ (cpc[c] = "panic" /\ cpc'[c] /= "panic") =>
                /\ cpc'[c] = "done"
                /\ exitPath'[c] = "panic"
                /\ rwcClosed'[c]
                /\ srvVars' = srvVars
                /\ \A d \in Conns \ {c} : ConnState(d)' = ConnState(d)]_vars

\* Connection 1 has ended in a recovered panic while the accept loop still
\* runs and connection 2 is serving its second message.
C2_Witness ==
    /\ exitPath[1] = "panic"
    /\ lpc = "accept"
    /\ cpc[2] = "handler"
    /\ nread[2] = MaxMsgs

\* C3: whenever serve has exited, the socket is closed.
C3_ClosedOnExit ==
    \A c \in Conns : cpc[c] = "done" => rwcClosed[c]

\* Two serving loops have ended, one by a failed handshake, one by a panic.
C3_Witness ==
    /\ cpc[1] = "done" /\ exitPath[1] = "handshake"
    /\ cpc[2] = "done" /\ exitPath[2] = "panic"

\* The step in which connection c's loop calls ServeMux.ServeDIAM.
MuxDispatched(c) == Handler = Nil /\ cpc[c] = "dispatch" /\ cpc'[c] /= "dispatch"

\* The dictionary's short name for m, Nil when it has none.
ShortName(m) == FindCommand(m.app, m.code)

\* The key of a resolved message: short name, then R with bit 7 set, else A.
ResolvedKey(m) == ShortName(m) \o (IF m.flags >= 128 THEN "R" ELSE "A")

\* No handler is found for m: its resolved key is unregistered, or it does
\* not resolve and "ALL" is unregistered.
NoHandlerFound(m) ==
    IF ShortName(m) = Nil THEN muxM["ALL"] = NoEntry
    ELSE muxM[ResolvedKey(m)] = NoEntry

\* C4: a dispatch that finds no handler submits exactly one ErrorReport,
\* "unhandled message", naming the connection and the message dispatched; it
\* invokes no handler and writes nothing to the connection.
C4_UnhandledReported ==
    [][\A c \in Conns :
          (MuxDispatched(c) /\ NoHandlerFound(cur[c])) =>
              /\ emitted'[c] = << [Conn |-> Writer(c), Message |-> cur[c],
                                   Error |-> "unhandled message"] >>
              /\ invoked'[c] = <<>>
              /\ c = TheConn => rwcOut' = rwcOut /\ wbuf' = wbuf
              /\ cpc'[c] = "read"]_vars

\* With no catch-all registered, a connection whose first message was
\* handled and answered has had its second message, which the dictionary
\* does not resolve, reported as unhandled.
C4_Witness ==
    \E c \in Conns :
        /\ cpc[c] = "read"
        /\ nread[c] = MaxMsgs
        /\ c = TheConn
        /\ \E i \in 1..Len(wres["handler"]) : wres["handler"][i].err = Nil
        /\ Len(emitted[c]) = 1
        /\ emitted[c][1].Error = "unhandled message"
        /\ emitted[c][1].Message \in Msgs
        /\ ShortName(emitted[c][1].Message) = Nil
        /\ muxM["ALL"] = NoEntry

\* C5: a message the dictionary resolves to S is looked up under S+"R" with
\* the Request flag, S+"A" without; a handler registered there is invoked
\* once with this connection and message, nothing else is invoked and no
\* ErrorReport is submitted.
C5_ResolvedDispatch ==
    [][\A c \in Conns :
          (/\ MuxDispatched(c)
           /\ ShortName(cur[c]) /= Nil
           /\ muxM[ResolvedKey(cur[c])] /= NoEntry) =>
              /\ invoked'[c] = << [h |-> muxM[ResolvedKey(cur[c])],
                                   cmd |-> ResolvedKey(cur[c]),
                                   Conn |-> Writer(c), Message |-> cur[c]] >>
              /\ emitted'[c] = <<>>
              /\ cpc'[c] = "handler"]_vars

\* The handler registered under "CCR" runs for a Credit-Control request.
C5_Witness ==
    \E c \in Conns :
        /\ cpc[c] = "handler"
        /\ Len(invoked[c]) = 1
        /\ invoked[c][1].cmd = "CCR"
        /\ cur[c].code = CCCommandCode
        /\ cur[c].flags = RequestFlag

\* C6: a message the dictionary cannot resolve goes to the handler under
\* "ALL", once, whatever its Request flag, with no ErrorReport; no handler
\* under a short-name key is invoked for it.
C6_CatchAll ==
    [][\A c \in Conns :
          (/\ MuxDispatched(c)
           /\ ShortName(cur[c]) = Nil
           /\ muxM["ALL"] /= NoEntry) =>
              /\ invoked'[c] = << [h |-> muxM["ALL"], cmd |-> "ALL",
                                   Conn |-> Writer(c), Message |-> cur[c]] >>
              /\ emitted'[c] = <<>>
              /\ cpc'[c] = "handler"]_vars

\* An unresolvable request runs under "ALL" although "CCR" has a handler too.
C6_Witness ==
    \E c \in Conns :
        /\ cpc[c] = "handler"
        /\ Len(invoked[c]) = 1
        /\ invoked[c][1].cmd = "ALL"
        /\ ShortName(cur[c]) = Nil
        /\ cur[c].flags = RequestFlag
        /\ muxM["CCR"] /= NoEntry

\* C7: with a handler under "ALL", every dispatch invokes a handler (the
\* matching one, or the one under "ALL" when none matches) and none submits
\* an "unhandled message" report.
C7_CatchAllForUnmatched ==
    [][\A c \in Conns :
          (MuxDispatched(c) /\ muxM["ALL"] /= NoEntry) =>
              /\ emitted'[c] = <<>>
              /\ Len(invoked'[c]) = 1
              /\ invoked'[c][1].cmd =
                    IF NoHandlerFound(cur[c]) THEN "ALL"
                    ELSE IF ShortName(cur[c]) = Nil THEN "ALL"
                    ELSE ResolvedKey(cur[c])]_vars

\* C8: Handle on a key that already has a handler panics and leaves the
\* table as it was.
C8_DuplicateRejected ==
    [][(lastHandle' /= lastHandle /\ muxM[lastHandle'.cmd] /= NoEntry) =>
          (lastHandle'.res = "panic" /\ muxM' = muxM)]_vars

\* C9: Handle with a nil handler panics and leaves the table as it was,
\* the entry of the key passed included.
C9_NilHandlerRejected ==
    [][(lastHandle' /= lastHandle /\ lastHandle'.h = Nil) =>
          (lastHandle'.res = "panic" /\ muxM' = muxM)]_vars

\* Handle(cmd, nil) has panicked on a key whose handler is still registered.
C9_Witness ==
    /\ lastHandle.h = Nil
    /\ lastHandle.res = "panic"
    /\ muxM[lastHandle.cmd] \in Handlers

\* C10: the mailbox never holds more than one report, and a report submitted
\* while it is occupied is dropped with the stored one unchanged (submitted
\* while it is empty, it is stored).
C10_MailboxOneSlot ==
    /\ [](Len(muxE) <= 1)
    /\ [][\A c \in Conns :
            (emitted'[c] /= emitted[c] /\ emitted'[c] /= <<>>) =>
                muxE' = IF muxE = <<>>
                        THEN <<emitted'[c][Len(emitted'[c])]>>
                        ELSE muxE]_vars

\* A connection's earlier report still sits in the mailbox after the same
\* connection has submitted a different one: the later one was dropped.
C10_Witness ==
    \E c \in Conns :
        /\ Len(emitted[c]) = 1
        /\ Len(muxE) = 1
        /\ muxE[1].Conn = Writer(c)
        /\ muxE[1] /= emitted[c][1]

\* C11: ServeMux.Error never blocks its caller. Wherever a serving loop
\* stands before a step that may call Error (a failed read, of whatever
\* error; a dispatch) the step can be taken, however many reports the other
\* loops have submitted and whether or not anybody receives them.
C11_ErrorNeverBlocks ==
    \A c \in Conns :
        /\ cpc[c] = "read" =>
              \A err \in ReadErrs : ENABLED ReadFailWith(c, err)
        /\ (cpc[c] = "dispatch" /\ muWriter = <<>>) => ENABLED Dispatch(c)

\* Nobody has received the report in the mailbox, and every connection has
\* since submitted a report of its own and gone on: one loop reads again
\* after an unhandled message, another has ended on a reported read error.
C11_Witness ==
    /\ Len(muxE) = ErrChanCap
    /\ \A c \in Conns : Len(emitted[c]) = 1 /\ cpc[c] \in {"read", "done"}
    /\ \E c \in Conns : cpc[c] = "read" /\ muxE[1] /= emitted[c][1]
    /\ \E c \in Conns : cpc[c] = "done" /\ muxE[1] /= emitted[c][1]

\* C12: the notification channel is closed at most once, whatever the
\* interleaving of the CloseNotify calls and notifyClientGone, and only
\* after the read of the original source by the copy task has returned an
\* error or the end of the stream, with every byte copied before it taken
\* from the pipe; clientGone is set exactly when the channel is closed.
C12_ClosedOnceAfterTerminal ==
    /\ closes <= 1
    /\ clientGone <=> closeNotifyc = "closed"
    /\ closeNotifyc = "closed" =>
          /\ closes = 1
          /\ copyErr /= Nil
          /\ copyPc = "done"
          /\ pipeW = <<>>

\* Both callers hold the channel, every byte the peer sent has reached the
\* serving loop, and the channel was closed on the peer's disconnect.
C12_Witness ==
    /\ closeNotifyc = "closed"
    /\ \A g \in Requesters : req[g] = "holds"
    /\ Len(seen) = MaxBytes
    /\ copyErr = peer
    /\ peer /= "connected"

\* C13: once CloseNotify has been called on a connection, a disconnect of
\* the peer after that leads to the channel closed and clientGone set,
\* whether the serving loop is reading or its handler waits on the channel.
C13_DisconnectNotified ==
    goneAfter ~> (closeNotifyc = "closed" /\ clientGone)

\* C14: wherever closeNotify swaps the reader, a Read in flight included, the
\* bytes the buffered reader gets from sr.Read are the bytes the peer sent,
\* in the order sent: none lost before a later one, none twice, none early.
C14_SubstitutionTransparent ==
    \A i \in 1..Len(seen) : seen[i] = i

\* C15: the sleep that follows the k-th temporary Accept error in a row is
\* min(5ms * 2^(k-1), 1s), k counted from the last accepted socket (or from
\* the start of Serve); no sleep is shorter than 5ms or longer than 1s, and
\* an accepted socket puts the backoff back to zero.
C15_BackoffSchedule ==
    /\ lpc = "sleep" =>
          /\ ktemp >= 1
          /\ tempDelay = Min(FirstDelay * 2^(ktemp - 1), MaxDelay)
          /\ tempDelay >= FirstDelay
          /\ tempDelay <= MaxDelay
    /\ ktemp = 0 => tempDelay = 0

\* After a socket was accepted, the ninth temporary error in a row sleeps
\* the full second: 5ms * 2^8 is above the ceiling.
C15_Witness ==
    /\ lpc = "sleep"
    /\ ktemp = 9
    /\ tempDelay = MaxDelay
    /\ cpc[1] /= "none"

\* C16: an Accept error that is not temporary ends the loop in that step,
\* with no sleep: Serve returns that error and the listener is closed; after
\* that nothing is accepted, slept or changed in the loop. A temporary error
\* leads to the sleep, never to the return.
C16_PermanentErrorReturns ==
    /\ [][(lpc = "accept" /\ lpc' /= "accept") =>
            IF Temporary(aerr')
            THEN lpc' = "sleep" /\ serveRet' = Nil /\ ~lclosed'
            ELSE /\ aerr' /= Nil
                 /\ lpc' = "returned"
                 /\ serveRet' = aerr'
                 /\ lclosed'
                 /\ tempDelay' = tempDelay]_vars
    /\ [][lpc = "returned" =>
            /\ srvVars' = srvVars
            /\ \A c \in Conns : cpc[c] = "none" => cpc'[c] = "none"]_vars
    /\ [](lpc = "returned" <=> serveRet /= Nil)
    /\ [](lpc = "returned" => lclosed)

\* Serve has returned the error of an Accept that failed for good after two
\* temporary errors, one socket accepted before; the listener is closed.
C16_Witness ==
    /\ lpc = "returned"
    /\ serveRet = "closed"
    /\ aerr = serveRet
    /\ lclosed
    /\ ktemp = 2
    /\ cpc[1] /= "none"
    /\ cpc[2] = "none"

\* The step in which the read of connection c's loop fails and the loop ends.
ReadFailed(c) ==
    cpc[c] = "read" /\ cpc'[c] = "done" /\ exitPath'[c] \in ReadErrs \cup { "closed" }

\* C17: a read that ends with a clean end of stream closes the connection
\* and submits no ErrorReport: nothing is emitted by the loop and the error
\* mailbox keeps its content, whatever handler is configured.
C17_CleanEOFSilent ==
    [][\A c \in Conns :
          (ReadFailed(c) /\ exitPath'[c] = "EOF") =>
              /\ rwcClosed'[c]
              /\ emitted'[c] = <<>>
              /\ muxE' = muxE]_vars

\* With the DefaultServeMux as handler, a connection that was served
\* MaxMsgs messages has ended on a clean end of stream, closed and silent.
C17_Witness ==
    \E c \in Conns :
        /\ Handler = Nil
        /\ exitPath[c] = "EOF"
        /\ nread[c] = MaxMsgs
        /\ rwcClosed[c]
        /\ emitted[c] = <<>>
        /\ muxE = <<>>

\* The report of a failed read: this connection, no message, the error.
ReadReport(c, err) == [Conn |-> Writer(c), Message |-> NilMessage, Error |-> err]

\* C20: a read that fails with anything but a clean end of
\* stream (a truncated message included) closes the socket, ends the loop
\* and, when the handler is an ErrorReporter (the DefaultServeMux when none
\* is configured), emits one ErrorReport with the connection, the nil
\* message and the error; with any other handler nothing is emitted.
C20_ReadFailureReported ==
    [][\A c \in Conns :
          (ReadFailed(c) /\ exitPath'[c] /= "EOF") =>
              /\ rwcClosed'[c]
              /\ IF Handler = Nil
                 THEN /\ emitted'[c] = <<ReadReport(c, exitPath'[c])>>
                      /\ muxE' = IF muxE = <<>>
                                 THEN <<ReadReport(c, exitPath'[c])>> ELSE muxE
                 ELSE /\ emitted'[c] = <<>>
                      /\ muxE' = muxE]_vars

\* C18: a header of version 1 with any 24-bit length, any 24-bit command
\* code, any flags byte and any three 32-bit identifiers, written as its 20
\* bytes in network order, is read back by ReadHeader without error and
\* with every field as given.
C18_HeaderRoundTrip ==
    (/\ hpc = "read"
     /\ hin.Version = 1
     /\ Len(stream) >= HeaderSize
     /\ Take(stream, HeaderSize) = EncodeHeader(MakeHeader(hin))) =>
        /\ hres.err = Nil
        /\ hres.hdr = MakeHeader(hin)
        /\ hres.hdr.Version = 1
        /\ MessageLength(hres.hdr) = hin.MessageLength
        /\ hres.hdr.CommandFlags = hin.CommandFlags
        /\ CommandCode(hres.hdr) = hin.CommandCode
        /\ hres.hdr.ApplicationId = hin.ApplicationId
        /\ hres.hdr.HopByHopId = hin.HopByHopId
        /\ hres.hdr.EndToEndId = hin.EndToEndId

\* A header with the largest length and code, all flags set and three
\* different identifiers has been read back, body bytes following it.
C18_Witness ==
    /\ hpc = "read"
    /\ hres.err = Nil
    /\ Len(stream) > HeaderSize
    /\ hin.MessageLength = 16777215
    /\ hin.CommandCode = 16777215
    /\ hin.CommandFlags = 255
    /\ hres.hdr.ApplicationId = Uint32(GxApplicationID)
    /\ hres.hdr.HopByHopId = Uint32(1)
    /\ hres.hdr.EndToEndId = MaxUint32

\* C19 as claimed: ReadHeader on a stream of any length, shorter than 20
\* bytes included, whose first byte is not 1 fails with the version error,
\* not an I/O error, and returns no header.
C19_VersionErrorAnyLength ==
    (hpc = "read" /\ Len(stream) >= 1 /\ stream[1] /= 1) =>
        hres.err = "Invalid diameter version" /\ hres.hdr = NilHeader

\* C19 amended: ReadHeader on a stream of 20 bytes or more whose first byte
\* is not 1 fails with the version error and returns no header; on a
\* shorter stream it fails with io.EOF (no byte) or io.ErrUnexpectedEOF and
\* returns no header, whatever the first byte.
C19_VersionErrorFullHeader ==
    hpc = "read" =>
        /\ (Len(stream) >= HeaderSize /\ stream[1] /= 1) =>
              hres.err = "Invalid diameter version" /\ hres.hdr = NilHeader
        /\ Len(stream) < HeaderSize =>
              /\ hres.err = IF Len(stream) = 0 THEN "EOF" ELSE "ErrUnexpectedEOF"
              /\ hres.hdr = NilHeader

\* ReadHeader has refused a complete header of version 2.
C19_Witness ==
    /\ hpc = "read"
    /\ Len(stream) = HeaderSize
    /\ stream[1] = 2
    /\ hres.err = "Invalid diameter version"
    /\ hres.hdr = NilHeader

\* C21: on a TLS socket a failed handshake ends serve at once with the
\* socket closed: no message read, no handler invoked, no ErrorReport, no
\* TLS state captured. The loop runs only on a plain socket or after a
\* handshake that succeeded and whose state was captured, and a captured
\* state never changes.
C21_HandshakeGate ==
    /\ [][\A c \in Conns :
            (cpc[c] = "start" /\ exitPath'[c] = "handshake") =>
                /\ isTLS
                /\ cpc'[c] = "done"
                /\ rwcClosed'[c]
                /\ muxE' = muxE]_vars
    /\ [](\A c \in Conns :
            exitPath[c] = "handshake" =>
                /\ cpc[c] = "done"
                /\ nread[c] = 0
                /\ ncall[c] = 0
                /\ invoked[c] = <<>>
                /\ emitted[c] = <<>>
                /\ tlsState[c] = Nil)
    /\ [](\A c \in Conns :
            (cpc[c] \in { "read", "dispatch", "handler" } \/ nread[c] > 0) =>
                tlsState[c] = IF isTLS THEN "captured" ELSE Nil)
    /\ [][\A c \in Conns :
            tlsState[c] /= Nil => tlsState'[c] = tlsState[c]]_vars

\* On a TLS listener one connection ended on its handshake, untouched, while
\* another, past its handshake, is in the handler of its last message.
C21_Witness ==
    /\ isTLS
    /\ exitPath[1] = "handshake"
    /\ rwcClosed[1]
    /\ nread[1] = 0
    /\ tlsState[1] = Nil
    /\ cpc[2] = "handler"
    /\ nread[2] = MaxMsgs
    /\ tlsState[2] = "captured"

\* The key ServeDIAM looks m up under.
LookupKey(m) == IF ShortName(m) = Nil THEN "ALL" ELSE ResolvedKey(m)

\* C24: Handle with a handler never fails, also on a key that has one: the
\* entry of that key becomes the new handler and every other key keeps its
\* entry; the table changes in no other way, and a dispatch that finds an
\* entry under its key invokes the handler registered there last.
C24_ReRegisterReplaces ==
    /\ [][(lastHandle' /= lastHandle /\ lastHandle'.h /= Nil) =>
            /\ lastHandle'.res = "ok"
            /\ lastHandle'.old = muxM[lastHandle'.cmd]
            /\ muxM' = [muxM EXCEPT ![lastHandle'.cmd] = lastHandle'.h]]_vars
    /\ [][muxM' /= muxM => lastHandle' /= lastHandle]_vars
    /\ [][\A c \in Conns :
            (MuxDispatched(c) /\ muxM[LookupKey(cur[c])] /= NoEntry) =>
                /\ Len(invoked'[c]) = 1
                /\ invoked'[c][1].h = muxM[LookupKey(cur[c])]]_vars

\* Handle(k, h2) has replaced h1 under k, and a message that resolves to k
\* is in h2; another key still has its handler.
C24_Witness ==
    /\ lastHandle.res = "ok"
    /\ lastHandle.old = "h1"
    /\ lastHandle.h = "h2"
    /\ muxM[lastHandle.cmd] = "h2"
    /\ \E k \in Keys \ { lastHandle.cmd } : muxM[k] \in Handlers
    /\ \E c \in Conns :
          /\ cpc[c] = "handler"
          /\ Len(invoked[c]) = 1
          /\ invoked[c][1].cmd = lastHandle.cmd
          /\ invoked[c][1].h = "h2"

\* C25: no exit path leaves mux.mu held. The read lock is held exactly by
\* the connections inside a handler of the multiplexer: a handler that
\* returned has released it, and so has one that panicked, before serve has
\* recovered the panic and closed the socket. The write lock is held only by
\* a Handle call that is inside its body, never by one that has returned or
\* panicked. So a Handle call that waits with no handler running gets the
\* lock, the call that holds it ends, and with no Handle call under way
\* every pending dispatch goes on.
C25_LocksReleased ==
    /\ muLocked => muWriter /= <<>>
    /\ muReaders = { c \in Conns : cpc[c] = "handler" }
    /\ (muWriter /= <<>> /\ ~muLocked /\ muReaders = {}) => ENABLED HandleResume
    /\ (muWriter /= <<>> /\ muLocked) => ENABLED HandleBody
    /\ \A c \in Conns :
          (cpc[c] = "dispatch" /\ muWriter = <<>>) => ENABLED Dispatch(c)

\* Connection 1's handler has panicked and serve has not yet recovered: its
\* socket is open. A Handle call has panicked on a nil handler, a later
\* Handle call holds the lock, and connection 2, which has had a message
\* handled, waits with its next message for that call to end.
C25_Witness ==
    /\ cpc[1] = "panic"
    /\ ~rwcClosed[1]
    /\ lastHandle.res = "panic"
    /\ muLocked
    /\ muWriter /= <<>>
    /\ cpc[2] = "dispatch"
    /\ nret[2] > 0

\* C22: the accept loop and the serving loops do not wait for one another.
\* Whatever the other connections are doing, a handler that does not return
\* included, the accept loop can take the next socket, a loop that is about
\* to read can read, and a loop that has read a message can dispatch it; the
\* only thing a dispatch may wait for is a registration that can itself
\* proceed, never the handler of another connection.
C22_LoopsIndependent ==
    /\ (lpc = "accept" /\ \E c \in Conns : cpc[c] = "none") => ENABLED AcceptOK
    /\ \A c \in Conns :
          /\ cpc[c] = "start" => ENABLED ServeStart(c)
          /\ (cpc[c] = "read" /\ nread[c] < MaxMsgs) => ENABLED ReadOK(c)
          /\ cpc[c] = "dispatch" =>
                ENABLED Dispatch(c) \/ ENABLED HandleResume \/ ENABLED HandleBody

\* The goroutines between the return of w.mu.Lock() and the return of Write.
Writing == { g \in Requesters : wpc[g] \notin { "idle", "lock" } }

\* Byte y is the byte that follows byte x in one message.
FollowsIn(x, y) == y = [x EXCEPT !.i = x.i + 1]

\* Every message on the socket is in one piece: a byte that is not the last
\* of its message is followed by the next byte of that message, and a byte
\* that follows the end of a message is the first of its own.
Contiguous(out) ==
    /\ Len(out) > 0 => out[1].i = 1
    /\ \A p \in 2..Len(out) :
          IF out[p - 1].i < out[p - 1].of
          THEN FollowsIn(out[p - 1], out[p])
          ELSE out[p].i = 1

\* Message number no of goroutine g is on the socket, whole.
OnWire(g, no, of) ==
    \E p \in 1..Len(rwcOut) :
       /\ p + of - 1 <= Len(rwcOut)
       /\ \A k \in 1..of :
             rwcOut[p + k - 1] = [who |-> g, no |-> no, i |-> k, of |-> of]

WriteResultsRight ==
    \A g \in Requesters : \A no \in 1..Len(wres[g]) :
       IF wres[g][no].err = Nil
       THEN /\ wres[g][no].n = wres[g][no].b
            /\ OnWire(g, no, wres[g][no].b)
       ELSE wres[g][no].n = 0

WritesSerializedNow ==
    /\ Cardinality(Writing) <= 1
    /\ \A g \in Writing : wmu = g
    /\ Contiguous(rwcOut)
    /\ WriteResultsRight

\* A step of a Write call leaves the connection open and the serving loop
\* where it is, and once a write to the socket has failed no byte is written
\* to it again: the failed call returns without another attempt.
WriteStepKeepsConn ==
    /\ wrVars' /= wrVars => rwcClosed' = rwcClosed /\ cpc' = cpc
    /\ berr /= Nil => rwcOut' = rwcOut
    /\ \A g \in Requesters :
          (Len(wres'[g]) > Len(wres[g]) /\ berr' /= Nil) =>
             /\ wres'[g][Len(wres'[g])] = [b |-> wmsg[g].of, n |-> 0, err |-> berr']
             /\ wmu' = Nil

\* C23: writes on one connection are serialized. Under every interleaving of
\* Write calls of the handler and of another goroutine at most one call is
\* between taking w.mu and the end of its flush, so each message's bytes are
\* contiguous on the socket; a call that succeeds returns the message's
\* length with the message on the socket; a call whose write or flush fails
\* returns (0, err), writes nothing more, and the connection stays open.
C23_WritesSerialized == []WritesSerializedNow /\ [][WriteStepKeepsConn]_vars

\* A message longer than the buffer has been written whole to the socket,
\* and now one call waits for w.mu while another holds it and is about to
\* flush.
C23_Witness ==
    /\ \E g \in Requesters :
          \E no \in 1..Len(wres[g]) :
             wres[g][no].err = Nil /\ wres[g][no].b > WriterSize
    /\ wpc["handler"] = "flush"
    /\ wpc["other"] = "lock"
    /\ ~rwcClosed[TheConn]

====
